---- MODULE Spec2Model ----
(***************************************************************************)
(* Good Ways point of sale: the Home shell, the Cashier cart, the Payment  *)
(* screen, the Sales screen with its open bills, the confirmation dialog,  *)
(* the Products page and the transactions / products tables behind them.   *)
(*                                                                         *)
(* Nullable values (string | null, number | null, T | null) are written as *)
(* sequences of length at most one: None is null, Some(x) is x.            *)
(* Text that the code trims, filters or parses is a sequence of one-       *)
(* character strings.  Array indices are 1-based here and 0-based in the   *)
(* source.                                                                 *)
(***************************************************************************)
EXTENDS Integers, Sequences, FiniteSets, TLC

\* ------------------------------------------------------------------ bounds
\* The cashier stops adding once the cart holds MaxCart elements.
MaxCart == 3
\* The "+" button of the product modal is not pressed beyond MaxQty.
MaxQty == 2
MaxTxns == 2
MaxPayCart == 1
MaxProducts == 2
\* At most MaxCalls calls of PrinterService are under way at a time.
MaxCalls == 2
\* The texts given to justifyLine have at most MaxText characters, those
\* given to sendData at most MaxData.
MaxText == 34
MaxData == 41

\* ------------------------------------------------------------ null values
None == <<>>
Some(x) == <<x>>
IsNone(o) == o = <<>>
IsSome(o) == o /= <<>>
Get(o) == o[1]

\* ---------------------------------------------------------------- catalog
\* Rows of the products table as Cashier.fetchProducts returns them, and the
\* rows of product_addons for the one product that has add-ons.
Products ==
  { [id |-> "p1", name |-> "Kopi", price |-> 15000, has_variants |-> TRUE,  has_addons |-> TRUE],
    [id |-> "p2", name |-> "Roti", price |-> 20000, has_variants |-> FALSE, has_addons |-> FALSE] }

ProductAddons(product_id) ==
  IF product_id = "p1" THEN << [name |-> "Susu", price |-> 3000] >> ELSE << >>

Variants == {"Ice", "Hot"}

\* ------------------------------------------------------------ JS arrays
\* What a slot of a JavaScript array can hold besides a CartItem: an empty
\* slot (a hole of a sparse array), undefined, and null.
Hole == [kind |-> "hole"]
Undefined == [kind |-> "undefined"]
Null == [kind |-> "null"]

IsItem(e) == e.kind = "item"

RECURSIVE SumSeq(_)
SumSeq(s) == IF s = << >> THEN 0 ELSE Head(s) + SumSeq(Tail(s))

\* arr.filter(pred) visits only the slots that exist: holes are dropped.
RECURSIVE FilterIdx(_, _, _)
FilterIdx(arr, drop, i) ==
  IF i > Len(arr) THEN << >>
  ELSE IF i = drop \/ arr[i] = Hole THEN FilterIdx(arr, drop, i + 1)
  ELSE << arr[i] >> \o FilterIdx(arr, drop, i + 1)

\* [...arr]: the iterator yields undefined for a hole.
Spread(arr) == [i \in 1..Len(arr) |-> IF arr[i] = Hole THEN Undefined ELSE arr[i]]

\* arr[index] = value: a write past the end lengthens the array and leaves
\* holes between the old end and the written slot.
ArraySet(arr, index, value) ==
  [i \in 1..(IF index > Len(arr) THEN index ELSE Len(arr)) |->
     IF i = index THEN value ELSE IF i <= Len(arr) THEN arr[i] ELSE Hole]

\* JSON.stringify(cart): holes and undefined slots are written as null.
\* The JSON text is kept as a record holding the slots it spells out.
Stringify(arr) ==
  [text |-> [i \in 1..Len(arr) |-> IF arr[i] \in {Hole, Undefined} THEN Null ELSE arr[i]]]
\* JSON.parse(savedCart)
Parse(json) == json.text

\* cart.reduce((sum, item) => sum + item.totalPrice, 0): holes are skipped;
\* an undefined or null slot makes item.totalPrice throw (RenderThrows).
grandTotalOf(c) ==
  SumSeq([i \in 1..Len(c) |-> IF IsItem(c[i]) THEN c[i].totalPrice ELSE 0])

RenderThrows(c) == \E i \in 1..Len(c) : c[i] \in {Undefined, Null}

\* --------------------------------------------------------------- state
VARIABLES
  \* Home
  activeNav, showPayment, paymentData,
  \* localStorage key 'goodways-cart' (None when the key is absent)
  savedCart,
  \* the page died on an uncaught render error
  crashed,
  \* Cashier
  cart, selectedProduct, modalVariant, modalAddOns, modalQuantity,
  editingCartIndex, isProductModalOpen, isCartModalOpen,
  timers, openPending, editPending,
  \* history: the cart of the Cashier that was unmounted last
  lastCart,
  \* the transactions table
  transactions,
  \* Payment
  transactionType, paymentMethod, isProcessing, cashReceived, cashChange,
  customerName, showReceipt, transactionData, payPending,
  \* Sales and the handleVoidBill call in progress
  openBills, salesLoading, voidPc, voidBillId, confirmed,
  \* Sales: paidTransactions, showReceipt, selectedTransaction
  paidTransactions, salesShowReceipt, selectedTransaction,
  \* the toast raised by the last step (None when it raised none)
  toast,
  \* Home: user.role
  user,
  \* Products: the userRole prop, the products table and the component's state
  userRole, productsTable, formData, editingProduct, isModalOpen, modalClosing,
  isSubmitting, confirmDialog, notification, productPending,
  \* Reports: transactions, overviewStats, bestSellers, isLoading, dateRange
  \* and the fetchTransactions call in progress
  reportData, overviewStats, bestSellers, reportsLoading, dateRange, reportsPending,
  \* App: user (None before the login) and sessionStorage key 'goodways_user'
  session, savedUser,
  \* Login: pin, error, isLoading, success, the query in progress and the
  \* timeouts set and not yet fired
  pin, loginError, loginLoading, success, loginPending, loginTimers,
  \* the receipt that was handed to the print service last (None when none was)
  printed,
  \* PrinterService: device, characteristic, isConnected
  device, characteristic, isConnected,
  \* the devices whose GATT server is connected
  gattConnected,
  \* the calls of PrinterService that are under way, the way the call that
  \* ended last ended, and whether a connect() has returned with no
  \* disconnect() called since
  calls, lastCall, linked,
  \* the justifyLine call made last (None when none was)
  justified

homeVars == << activeNav, showPayment, paymentData >>
paymentVars == << transactionType, paymentMethod, isProcessing, cashReceived, cashChange,
                  customerName, showReceipt, transactionData, payPending >>
salesVars == << openBills, salesLoading, paidTransactions, salesShowReceipt,
               selectedTransaction >>
adminVars == << user, userRole, productsTable, formData, editingProduct, isModalOpen,
               modalClosing, isSubmitting, confirmDialog, notification, productPending >>
voidVars == << voidPc, voidBillId, confirmed >>
reportsVars == << reportData, overviewStats, bestSellers, reportsLoading, dateRange,
                 reportsPending >>
\* What the Cashier, Payment, Sales and Products leave alone.
loginVars == << session, savedUser, pin, loginError, loginLoading, success, loginPending,
               loginTimers >>
printVars == << printed >>
printerVars == << device, characteristic, isConnected, gattConnected, calls, lastCall,
                 linked >>
justifyVars == << justified >>
moreVars == << reportsVars, loginVars, printVars, printerVars, justifyVars >>
cashierVars == << cart, selectedProduct, modalVariant, modalAddOns, modalQuantity,
                  editingCartIndex, isProductModalOpen, isCartModalOpen,
                  timers, openPending, editPending >>
vars == << homeVars, savedCart, crashed, cashierVars, lastCart, transactions,
          paymentVars, salesVars, voidVars, toast, adminVars, moreVars >>
\* What no Cashier handler touches.
restVars == << transactions, paymentVars, salesVars, voidVars, adminVars >>

\* ------------------------------------------------------------ visibility
\* What is on screen.  Both Cashier modals are fixed full-screen overlays of
\* the same z-index; the cart modal comes later in the document and lies on
\* top when both are open.
CashierShown == ~crashed /\ activeNav = "cashier" /\ ~showPayment
CartModalShown == CashierShown /\ isCartModalOpen
ProductModalShown ==
  CashierShown /\ isProductModalOpen /\ IsSome(selectedProduct) /\ ~isCartModalOpen
Covered == CashierShown /\ (isCartModalOpen \/ (isProductModalOpen /\ IsSome(selectedProduct)))

\* The cashier clicks once the 200 ms and 250 ms animation timers of the
\* previous click have run; queries to the database may take any time.
Settled == timers = {}

\* At most one add-on query is in flight.
NoQuery == IsNone(openPending) /\ IsNone(editPending)

\* ----------------------------------------------------------- Cashier
\* The state a Cashier has right after it is constructed, the cart aside.
CashierFresh ==
  /\ selectedProduct' = None
  /\ modalVariant' = "Ice"
  /\ modalAddOns' = << >>
  /\ modalQuantity' = 1
  /\ editingCartIndex' = None
  /\ isProductModalOpen' = FALSE
  /\ isCartModalOpen' = FALSE
  /\ timers' = {}
  /\ openPending' = None
  /\ editPending' = None

\* setCart(newCart), the render that follows and, when the render did not
\* throw, the effect that saves the cart.
CommitCart(newCart) ==
  /\ cart' = newCart
  /\ IF RenderThrows(newCart)
       THEN crashed' = TRUE /\ savedCart' = savedCart
       ELSE crashed' = crashed /\ savedCart' = Some(Stringify(newCart))

\* useState initialiser of cart, with the first render and save effect.
MountCashier ==
  /\ CommitCart(IF IsNone(savedCart) THEN << >> ELSE Parse(Get(savedCart)))
  /\ CashierFresh
  /\ lastCart' = << >>

\* The Cashier leaves the screen: its state is dropped; timers and fetches
\* of the dropped instance no longer change anything.
UnmountCashier ==
  /\ lastCart' = cart
  /\ cart' = << >>
  /\ CashierFresh

FetchedAddOns(product, ok) ==
  IF ok THEN [i \in 1..Len(ProductAddons(product.id)) |->
                [name |-> ProductAddons(product.id)[i].name,
                 price |-> ProductAddons(product.id)[i].price,
                 selected |-> FALSE]]
  ELSE << >>

openProductModal(product) ==
  /\ Settled
  /\ CashierShown /\ ~Covered
  /\ selectedProduct' = Some(product)
  /\ modalVariant' = "Ice"
  /\ modalQuantity' = 1
  /\ IF product.has_addons
       THEN /\ NoQuery
            /\ openPending' = Some(product)
            /\ UNCHANGED << modalAddOns, isProductModalOpen >>
       ELSE /\ modalAddOns' = << >>
            /\ isProductModalOpen' = TRUE
            /\ UNCHANGED openPending
  /\ UNCHANGED << homeVars, adminVars, moreVars, savedCart, crashed, cart, editingCartIndex,
                  isCartModalOpen, timers, editPending, lastCart, restVars >>
  /\ toast' = None

\* The add-on query of openProductModal returns (ok) or fails.
openProductModalFetched(ok) ==
  /\ CashierShown /\ IsSome(openPending)
  /\ modalAddOns' = FetchedAddOns(Get(openPending), ok)
  /\ isProductModalOpen' = TRUE
  /\ openPending' = None
  /\ UNCHANGED << homeVars, adminVars, moreVars, savedCart, crashed, cart, selectedProduct, modalVariant,
                  modalQuantity, editingCartIndex, isCartModalOpen, timers,
                  editPending, lastCart, restVars >>
  /\ toast' = None

modalOnly(changed) ==
  /\ ProductModalShown /\ Settled
  /\ changed
  /\ UNCHANGED << homeVars, adminVars, moreVars, savedCart, crashed, cart, selectedProduct,
                  editingCartIndex, isProductModalOpen, isCartModalOpen, timers,
                  openPending, editPending, lastCart, restVars >>
  /\ toast' = None

setModalVariant(v) ==
  /\ ProductModalShown
  /\ Get(selectedProduct).has_variants
  /\ modalOnly(modalVariant' = v /\ UNCHANGED << modalAddOns, modalQuantity >>)

toggleAddOn(i) ==
  /\ ProductModalShown
  /\ Get(selectedProduct).has_addons
  /\ i \in 1..Len(modalAddOns)
  /\ modalOnly(/\ modalAddOns' = [modalAddOns EXCEPT ![i].selected = ~@]
               /\ UNCHANGED << modalVariant, modalQuantity >>)

decQuantity ==
  modalOnly(/\ modalQuantity' = (IF modalQuantity - 1 > 1 THEN modalQuantity - 1 ELSE 1)
            /\ UNCHANGED << modalVariant, modalAddOns >>)

incQuantity ==
  /\ modalQuantity < MaxQty
  /\ modalOnly(modalQuantity' = modalQuantity + 1 /\ UNCHANGED << modalVariant, modalAddOns >>)

closeProductModal ==
  /\ Settled
  /\ ProductModalShown
  /\ timers' = timers \cup {"closeProduct"}
  /\ UNCHANGED << homeVars, adminVars, moreVars, savedCart, crashed, cart, selectedProduct, modalVariant,
                  modalAddOns, modalQuantity, editingCartIndex, isProductModalOpen,
                  isCartModalOpen, openPending, editPending, lastCart, restVars >>
  /\ toast' = None

\* The 200 ms timer of closeProductModal.
timerCloseProduct ==
  /\ CashierShown /\ "closeProduct" \in timers
  /\ timers' = timers \ {"closeProduct"}
  /\ isProductModalOpen' = FALSE
  /\ selectedProduct' = None
  /\ editingCartIndex' = None
  /\ UNCHANGED << homeVars, adminVars, moreVars, savedCart, crashed, cart, modalVariant, modalAddOns,
                  modalQuantity, isCartModalOpen, openPending, editPending, lastCart, restVars >>
  /\ toast' = None

\* selectedAddOns of addToCart and updateCartItem.
RECURSIVE SelectedAddOns(_)
SelectedAddOns(m) ==
  IF m = << >> THEN << >>
  ELSE (IF Head(m).selected THEN << [name |-> Head(m).name, price |-> Head(m).price] >>
        ELSE << >>) \o SelectedAddOns(Tail(m))

AddOnsTotal(addOns) == SumSeq([i \in 1..Len(addOns) |-> addOns[i].price])

TotalPrice(product, addOns, quantity) == (product.price + AddOnsTotal(addOns)) * quantity

ItemVariant(product, variant) == IF product.has_variants THEN Some(variant) ELSE None

\* The CartItem that addToCart and updateCartItem build from the modal.
ModalItem ==
  [kind |-> "item",
   product |-> Get(selectedProduct),
   quantity |-> modalQuantity,
   variant |-> ItemVariant(Get(selectedProduct), modalVariant),
   addOns |-> SelectedAddOns(modalAddOns),
   totalPrice |-> TotalPrice(Get(selectedProduct), SelectedAddOns(modalAddOns), modalQuantity)]

\* updateCartItem: newCart = [...cart]; newCart[editingCartIndex] = item.
UpdatedCart == ArraySet(Spread(cart), Get(editingCartIndex), ModalItem)

\* The Tambah / Simpan button.
addToCart ==
  /\ Settled
  /\ ProductModalShown
  /\ IF IsSome(editingCartIndex)
       THEN /\ CommitCart(UpdatedCart)
            /\ editingCartIndex' = None
       ELSE /\ Len(cart) < MaxCart
            /\ CommitCart(cart \o << ModalItem >>)
            /\ UNCHANGED editingCartIndex
  /\ timers' = timers \cup {"closeProduct"}
  /\ UNCHANGED << homeVars, adminVars, moreVars, selectedProduct, modalVariant, modalAddOns, modalQuantity,
                  isProductModalOpen, isCartModalOpen, openPending, editPending, lastCart, restVars >>
  /\ toast' = None

openCartModal ==
  /\ Settled
  /\ CashierShown /\ ~Covered /\ Len(cart) > 0
  /\ isCartModalOpen' = TRUE
  /\ UNCHANGED << homeVars, adminVars, moreVars, savedCart, crashed, cart, selectedProduct, modalVariant,
                  modalAddOns, modalQuantity, editingCartIndex, isProductModalOpen,
                  timers, openPending, editPending, lastCart, restVars >>
  /\ toast' = None

closeCartModal ==
  /\ Settled
  /\ CartModalShown
  /\ timers' = timers \cup {"closeCart"}
  /\ UNCHANGED << homeVars, adminVars, moreVars, savedCart, crashed, cart, selectedProduct, modalVariant,
                  modalAddOns, modalQuantity, editingCartIndex, isProductModalOpen,
                  isCartModalOpen, openPending, editPending, lastCart, restVars >>
  /\ toast' = None

\* The 200 ms timer of closeCartModal.
timerCloseCart ==
  /\ CashierShown /\ "closeCart" \in timers
  /\ timers' = timers \ {"closeCart"}
  /\ isCartModalOpen' = FALSE
  /\ editingCartIndex' = None
  /\ UNCHANGED << homeVars, adminVars, moreVars, savedCart, crashed, cart, selectedProduct, modalVariant,
                  modalAddOns, modalQuantity, isProductModalOpen, openPending,
                  editPending, lastCart, restVars >>
  /\ toast' = None

removeFromCart(index) ==
  /\ Settled
  /\ CartModalShown
  /\ index \in 1..Len(cart) /\ IsItem(cart[index])
  /\ CommitCart(FilterIdx(cart, index, 1))
  /\ timers' = (IF FilterIdx(cart, index, 1) = << >> THEN timers \cup {"closeCart"} ELSE timers)
  /\ UNCHANGED << homeVars, adminVars, moreVars, selectedProduct, modalVariant, modalAddOns, modalQuantity,
                  editingCartIndex, isProductModalOpen, isCartModalOpen, openPending,
                  editPending, lastCart, restVars >>
  /\ toast' = None

\* modalAddOns of an edit: the fetched add-ons, ticked when the item has one
\* of that name.
EditAddOns(item, ok) ==
  [i \in 1..Len(FetchedAddOns(item.product, ok)) |->
     [FetchedAddOns(item.product, ok)[i] EXCEPT
        !.selected = \E k \in 1..Len(item.addOns) :
                        item.addOns[k].name = FetchedAddOns(item.product, ok)[i].name]]

startEditCartItem(index) ==
  /\ Settled
  /\ CartModalShown
  /\ index \in 1..Len(cart) /\ IsItem(cart[index])
  /\ editingCartIndex' = Some(index)
  /\ selectedProduct' = Some(cart[index].product)
  /\ modalVariant' = (IF IsSome(cart[index].variant) THEN Get(cart[index].variant) ELSE "Ice")
  /\ modalQuantity' = cart[index].quantity
  /\ IF cart[index].product.has_addons
       THEN /\ NoQuery
            /\ editPending' = Some(cart[index])
            /\ UNCHANGED << modalAddOns, timers >>
       ELSE /\ modalAddOns' = << >>
            /\ timers' = timers \cup {"editCloseCart", "editOpenProduct"}
            /\ UNCHANGED editPending
  /\ UNCHANGED << homeVars, adminVars, moreVars, savedCart, crashed, cart, isProductModalOpen,
                  isCartModalOpen, openPending, lastCart, restVars >>
  /\ toast' = None

\* The add-on query of startEditCartItem returns (ok) or fails.
startEditFetched(ok) ==
  /\ CashierShown /\ IsSome(editPending)
  /\ modalAddOns' = EditAddOns(Get(editPending), ok)
  /\ timers' = timers \cup {"editCloseCart", "editOpenProduct"}
  /\ editPending' = None
  /\ UNCHANGED << homeVars, adminVars, moreVars, savedCart, crashed, cart, selectedProduct, modalVariant,
                  modalQuantity, editingCartIndex, isProductModalOpen, isCartModalOpen,
                  openPending, lastCart, restVars >>
  /\ toast' = None

\* The 200 ms timer of startEditCartItem.
timerEditCloseCart ==
  /\ CashierShown /\ "editCloseCart" \in timers
  /\ timers' = timers \ {"editCloseCart"}
  /\ isCartModalOpen' = FALSE
  /\ UNCHANGED << homeVars, adminVars, moreVars, savedCart, crashed, cart, selectedProduct, modalVariant,
                  modalAddOns, modalQuantity, editingCartIndex, isProductModalOpen,
                  openPending, editPending, lastCart, restVars >>
  /\ toast' = None

\* The 250 ms timer of startEditCartItem; it runs after the 200 ms one.
timerEditOpenProduct ==
  /\ CashierShown /\ "editOpenProduct" \in timers /\ "editCloseCart" \notin timers
  /\ timers' = timers \ {"editOpenProduct"}
  /\ isProductModalOpen' = TRUE
  /\ UNCHANGED << homeVars, adminVars, moreVars, savedCart, crashed, cart, selectedProduct, modalVariant,
                  modalAddOns, modalQuantity, editingCartIndex, isCartModalOpen,
                  openPending, editPending, lastCart, restVars >>
  /\ toast' = None

\* ----------------------------------------------------------- strings
\* value.replace(/[^0-9]/g, '')
Digits == {"0", "1", "2", "3", "4", "5", "6", "7", "8", "9"}
DigitsOnly(value) == SelectSeq(value, LAMBDA ch : ch \in Digits)

DigitValue(ch) == CHOOSE d \in 0..9 : ch = <<"0", "1", "2", "3", "4", "5", "6", "7", "8", "9">>[d + 1]

\* parseFloat of a string of digits.
RECURSIVE parseFloat(_)
parseFloat(str) ==
  IF str = << >> THEN 0
  ELSE parseFloat(SubSeq(str, 1, Len(str) - 1)) * 10 + DigitValue(str[Len(str)])

\* amount.toString() of a non-negative integer.
RECURSIVE toString(_)
toString(n) ==
  IF n < 10 THEN << <<"0", "1", "2", "3", "4", "5", "6", "7", "8", "9">>[n + 1] >>
  ELSE toString(n \div 10) \o toString(n % 10)

\* str.trim()
RECURSIVE TrimLeft(_)
TrimLeft(str) == IF str /= << >> /\ Head(str) = " " THEN TrimLeft(Tail(str)) ELSE str
RECURSIVE TrimRight(_)
TrimRight(str) ==
  IF str /= << >> /\ str[Len(str)] = " " THEN TrimRight(SubSeq(str, 1, Len(str) - 1)) ELSE str
trim(str) == TrimRight(TrimLeft(str))

\* ------------------------------------------------------- transactions
\* A row of the transactions table.  id is the row's position; the columns
\* notes, cashier_name, created_by, transaction_number and transaction_date
\* are written once by the insert, read by no handler modelled here and left
\* out.
PaymentMethods == {"cash", "qris", "debit"}

\* cart.map(item => ({product_id, product_name, price, quantity, variant,
\* addOns, totalPrice})), as the request body spells it out (an empty slot
\* becomes null).
TransactionItems(c) ==
  [i \in 1..Len(c) |->
     IF IsItem(c[i])
       THEN [product_id |-> c[i].product.id, product_name |-> c[i].product.name,
             price |-> c[i].product.price, quantity |-> c[i].quantity,
             variant |-> c[i].variant, addOns |-> c[i].addOns,
             totalPrice |-> c[i].totalPrice]
       ELSE Null]

\* handlePayOpenBill: transaction.items.map(item => CartItem)
CartOfItems(items) ==
  [i \in 1..Len(items) |->
     [kind |-> "item",
      product |-> [id |-> items[i].product_id, name |-> items[i].product_name,
                   price |-> items[i].price],
      quantity |-> items[i].quantity, variant |-> items[i].variant,
      addOns |-> items[i].addOns, totalPrice |-> items[i].totalPrice]]

\* ------------------------------------------------------------ Payment
PaymentShown == ~crashed /\ showPayment /\ IsSome(paymentData)
ReceiptShown == PaymentShown /\ showReceipt /\ IsSome(transactionData)
\* The confirmation dialog covers the whole page while it is open.
DialogShown == voidPc = "confirming"
FormShown == PaymentShown /\ ~ReceiptShown /\ ~DialogShown

grandTotal == Get(paymentData).grandTotal
existingTransactionId == Get(paymentData).transactionId

\* The state a Payment has right after it is constructed.
PaymentFresh ==
  /\ transactionType' = "bayar_langsung"
  /\ paymentMethod' = "cash"
  /\ isProcessing' = FALSE
  /\ cashReceived' = << >>
  /\ cashChange' = 0
  /\ customerName' = << >>
  /\ showReceipt' = FALSE
  /\ transactionData' = None

\* The Payment leaves the screen: a request it has sent goes on without it.
Orphaned(request) ==
  IF IsSome(request)
    THEN Some([c \in DOMAIN Get(request) |-> IF c = "live" THEN FALSE ELSE Get(request)[c]])
    ELSE None

\* The state a Sales has right after it is constructed: fetchAllData is on
\* its way.
SalesFresh ==
  /\ openBills' = << >> /\ salesLoading' = TRUE
  /\ paidTransactions' = << >> /\ salesShowReceipt' = FALSE /\ selectedTransaction' = None
SalesGone ==
  /\ openBills' = << >> /\ salesLoading' = FALSE
  /\ paidTransactions' = << >> /\ salesShowReceipt' = FALSE /\ selectedTransaction' = None

SalesShown == ~crashed /\ activeNav = "sales" /\ ~showPayment

formOnly(changed) ==
  /\ FormShown
  /\ changed
  /\ toast' = None
  /\ UNCHANGED << homeVars, adminVars, moreVars, savedCart, crashed, cashierVars, lastCart, transactions,
                  isProcessing, showReceipt, transactionData, payPending,
                  salesVars, voidVars >>

setTransactionType(type) ==
  /\ FormShown
  /\ IsNone(existingTransactionId)
  /\ formOnly(/\ transactionType' = type
              /\ UNCHANGED << paymentMethod, cashReceived, cashChange, customerName >>)

MethodSectionShown == transactionType = "bayar_langsung" \/ IsSome(existingTransactionId)

setPaymentMethod(method) ==
  /\ FormShown
  /\ MethodSectionShown
  /\ formOnly(/\ paymentMethod' = method
              /\ UNCHANGED << transactionType, cashReceived, cashChange, customerName >>)

Change(received) == IF received - grandTotal >= 0 THEN received - grandTotal ELSE 0

handleCashReceivedChange(value) ==
  /\ FormShown
  /\ MethodSectionShown /\ paymentMethod = "cash"
  /\ formOnly(/\ cashReceived' = DigitsOnly(value)
              /\ cashChange' = (IF DigitsOnly(value) /= << >>
                                  THEN Change(parseFloat(DigitsOnly(value))) ELSE 0)
              /\ UNCHANGED << transactionType, paymentMethod, customerName >>)

setQuickCash(amount) ==
  /\ FormShown
  /\ MethodSectionShown /\ paymentMethod = "cash"
  /\ formOnly(/\ cashReceived' = toString(amount)
              /\ cashChange' = Change(amount)
              /\ UNCHANGED << transactionType, paymentMethod, customerName >>)

setCustomerName(value) ==
  /\ FormShown
  /\ transactionType = "open_bill"
  /\ formOnly(/\ customerName' = value
              /\ UNCHANGED << transactionType, paymentMethod, cashReceived, cashChange >>)

\* A validatePayment that does not compare the amount with grandTotal.
validatePayment_NoAmountCheck ==
  IF transactionType = "bayar_langsung"
    THEN IF paymentMethod = "cash" /\ cashReceived = << >>
           THEN Some("Masukkan nominal pembayaran") ELSE None
    ELSE IF trim(customerName) = << >> THEN Some("Masukkan nama pelanggan") ELSE None

\* validatePayment: None, or the error message.
validatePayment ==
  IF transactionType = "bayar_langsung"
    THEN IF paymentMethod = "cash"
           THEN IF cashReceived = << >> THEN Some("Masukkan nominal pembayaran")
                ELSE IF parseFloat(cashReceived) < grandTotal
                       THEN Some("Nominal pembayaran kurang")
                       ELSE None
           ELSE None
    ELSE IF trim(customerName) = << >> THEN Some("Masukkan nama pelanggan") ELSE None

\* updateData of handleProcessPayment.
updateData ==
  [payment_status |-> "paid",
   payment_method |-> Some(paymentMethod),
   cash_received |-> IF paymentMethod = "cash" THEN Some(parseFloat(cashReceived)) ELSE None,
   cash_change |-> IF paymentMethod = "cash" THEN Some(cashChange) ELSE None]

\* A row whose customer_name is the name as typed.
NewTransaction_NameAsTyped ==
  [items |-> TransactionItems(Get(paymentData).cart),
   subtotal |-> grandTotal,
   total |-> grandTotal,
   payment_status |-> IF transactionType = "open_bill" THEN "open_bill" ELSE "paid",
   payment_method |-> IF transactionType = "bayar_langsung" THEN Some(paymentMethod) ELSE None,
   cash_received |-> IF paymentMethod = "cash" /\ transactionType = "bayar_langsung"
                       THEN Some(parseFloat(cashReceived)) ELSE None,
   cash_change |-> IF paymentMethod = "cash" /\ transactionType = "bayar_langsung"
                     THEN Some(cashChange) ELSE None,
   customer_name |-> IF transactionType = "open_bill" THEN Some(customerName) ELSE None,
   void_reason |-> None,
   voided_at |-> None]

\* transactionData of handleProcessPayment (the row to insert).
NewTransaction ==
  [items |-> TransactionItems(Get(paymentData).cart),
   subtotal |-> grandTotal,
   total |-> grandTotal,
   payment_status |-> IF transactionType = "open_bill" THEN "open_bill" ELSE "paid",
   payment_method |-> IF transactionType = "bayar_langsung" THEN Some(paymentMethod) ELSE None,
   cash_received |-> IF paymentMethod = "cash" /\ transactionType = "bayar_langsung"
                       THEN Some(parseFloat(cashReceived)) ELSE None,
   cash_change |-> IF paymentMethod = "cash" /\ transactionType = "bayar_langsung"
                     THEN Some(cashChange) ELSE None,
   customer_name |-> IF transactionType = "open_bill" THEN Some(trim(customerName)) ELSE None,
   void_reason |-> None,
   voided_at |-> None]

\* handleProcessPayment up to its await: validation, setIsProcessing(true)
\* and the request.  The button is disabled while isProcessing; the handler
\* does its own validation, whatever the button's disabled state says.  One
\* request is under way at a time, and the table holds MaxTxns rows.
handleProcessPayment ==
  /\ FormShown
  /\ ~isProcessing
  /\ IsNone(payPending)
  /\ IsSome(existingTransactionId) \/ Len(transactions) < MaxTxns
  /\ IF IsSome(validatePayment)
       THEN /\ toast' = Some([type |-> "error", title |-> "Validasi Gagal"])
            /\ UNCHANGED << isProcessing, payPending >>
       ELSE /\ isProcessing' = TRUE
            /\ toast' = None
            /\ IF IsSome(existingTransactionId)
                 THEN payPending' = Some([kind |-> "update", id |-> Get(existingTransactionId),
                                          data |-> updateData,
                                          live |-> TRUE, answer |-> None])
                 ELSE payPending' = Some([kind |-> "insert", row |-> NewTransaction,
                                          live |-> TRUE, answer |-> None])
  /\ UNCHANGED << homeVars, adminVars, moreVars, savedCart, crashed, cashierVars, lastCart, transactions,
                  transactionType, paymentMethod, cashReceived, cashChange, customerName,
                  showReceipt, transactionData, salesVars, voidVars >>

\* An update without its .eq('id', id).
ApplyUpdate_EveryRow(rows, id, data) ==
  [i \in 1..Len(rows) |->
     [c \in DOMAIN rows[i] |-> IF c \in DOMAIN data THEN data[c] ELSE rows[i][c]]]

\* .update(updateData).eq('id', id): the row with the columns of data set.
ApplyUpdate(rows, id, data) ==
  [i \in 1..Len(rows) |->
     IF rows[i].id = id
       THEN [c \in DOMAIN rows[i] |-> IF c \in DOMAIN data THEN data[c] ELSE rows[i][c]]
       ELSE rows[i]]

\* .insert([row]): the table gives the row its id.
InsertedRow(rows, row) == [c \in DOMAIN row \cup {"id"} |-> IF c = "id" THEN Len(rows) + 1 ELSE row[c]]

\* The table after the request of handleProcessPayment.
PaidTransactions(rows, request) ==
  IF request.kind = "update" THEN ApplyUpdate(rows, request.id, request.data)
  ELSE Append(rows, InsertedRow(rows, request.row))

\* .select().single(): the row written.
WrittenRow(rows, request) ==
  IF request.kind = "update" THEN PaidTransactions(rows, request)[request.id]
  ELSE InsertedRow(rows, request.row)

\* The database serves the request of handleProcessPayment: the row is
\* written and returned (ok), or the request fails.
Answered(request, answer) ==
  [c \in DOMAIN request |-> IF c = "answer" THEN Some(answer) ELSE request[c]]

servePayment(ok) ==
  /\ IsSome(payPending) /\ IsNone(Get(payPending).answer)
  /\ IF ok
       THEN /\ transactions' = PaidTransactions(transactions, Get(payPending))
            /\ payPending' = Some(Answered(Get(payPending),
                                           [data |-> Some(WrittenRow(transactions, Get(payPending)))]))
       ELSE /\ payPending' = Some(Answered(Get(payPending), [data |-> None]))
            /\ UNCHANGED transactions
  /\ toast' = None
  /\ UNCHANGED << homeVars, adminVars, moreVars, savedCart, crashed, cashierVars, lastCart,
                  transactionType, paymentMethod, isProcessing, cashReceived, cashChange,
                  customerName, showReceipt, transactionData, salesVars, voidVars >>

\* A handler that does not look at the error.
Throws_Never(answer) == FALSE

\* handleProcessPayment after its await: setTransactionData(data) and
\* setShowReceipt(true), or the catch block; setIsProcessing(false).  The
\* state of a Payment that has left the screen is no longer there to set.
\* if (error) throw error
Throws(answer) == IsNone(answer.data)

handleProcessPaymentDone ==
  /\ IsSome(payPending) /\ IsSome(Get(payPending).answer)
  /\ LET request == Get(payPending)
         data == Get(request.answer).data
     IN /\ IF ~Throws(Get(request.answer))
             THEN /\ toast' = None
                  /\ IF request.live
                       THEN transactionData' = data /\ showReceipt' = TRUE
                       ELSE UNCHANGED << transactionData, showReceipt >>
             ELSE /\ toast' = Some([type |-> "error", title |-> "Gagal Memproses Pembayaran"])
                  /\ UNCHANGED << transactionData, showReceipt >>
        /\ isProcessing' = (IF request.live THEN FALSE ELSE isProcessing)
  /\ payPending' = None
  /\ UNCHANGED << homeVars, adminVars, moreVars, savedCart, crashed, cashierVars, lastCart, transactions,
                  transactionType, paymentMethod, cashReceived, cashChange, customerName,
                  salesVars, voidVars >>

\* -------------------------------------------------------------- Home
\* navItems: id and adminOnly.
navItems ==
  << [id |-> "cashier", adminOnly |-> FALSE], [id |-> "sales", adminOnly |-> FALSE],
     [id |-> "reports", adminOnly |-> TRUE], [id |-> "products", adminOnly |-> TRUE] >>

\* navItems.filter(item => !item.adminOnly || user.role === 'admin')
MenuEntries(role) ==
  {navItems[i].id : i \in {j \in 1..Len(navItems) : ~navItems[j].adminOnly \/ role = "admin"}}

\* The page Home renders below its header ("none": no page).
PageShown(nav, role) ==
  IF nav = "cashier" THEN "Cashier"
  ELSE IF nav = "sales" THEN "Sales"
  ELSE IF nav = "reports" /\ role = "admin" THEN "Reports"
  ELSE IF nav = "products" /\ role = "admin" THEN "Products"
  ELSE "none"

\* The page below Payment comes (back) on screen.
MountPage ==
  /\ IF activeNav = "cashier" THEN MountCashier
     ELSE UNCHANGED << savedCart, crashed, cashierVars, lastCart >>
  /\ IF activeNav = "sales" THEN SalesFresh ELSE SalesGone

\* Cashier.goToPayment and Home.handleGoToPayment, from the cart bar (not
\* covered by a modal) or from the Lanjut Bayar button of the cart modal.
goToPayment ==
  /\ Settled
  /\ CashierShown /\ (~Covered \/ CartModalShown) /\ ~DialogShown
  /\ Len(cart) /= 0
  /\ paymentData' = Some([cart |-> cart, grandTotal |-> grandTotalOf(cart), transactionId |-> None])
  /\ showPayment' = TRUE
  /\ UnmountCashier
  /\ PaymentFresh
  /\ toast' = None
  /\ UNCHANGED << activeNav, savedCart, crashed, transactions, payPending, salesVars, voidVars >>
  /\ UNCHANGED << adminVars, moreVars >>


\* The back buttons of Payment (the one in the header is never disabled).
handleBackFromPayment ==
  /\ FormShown
  /\ showPayment' = FALSE
  /\ paymentData' = None
  /\ MountPage
  /\ PaymentFresh
  /\ payPending' = Orphaned(payPending)
  /\ toast' = None
  /\ UNCHANGED << activeNav, transactions, voidVars >>
  /\ UNCHANGED << adminVars, moreVars >>


\* Payment.handleReceiptClose and Home.handlePaymentSuccess.
handleReceiptClose ==
  /\ ReceiptShown
  /\ showPayment' = FALSE
  /\ paymentData' = None
  /\ toast' = Some([type |-> "success", title |-> "Pembayaran Berhasil!"])
  /\ IF activeNav = "cashier"
       THEN /\ cart' = << >>
            /\ savedCart' = Some(Stringify(<< >>))
            /\ CashierFresh
            /\ lastCart' = << >>
            /\ UNCHANGED crashed
       ELSE /\ savedCart' = None
            /\ UNCHANGED << crashed, cashierVars, lastCart >>
  /\ IF activeNav = "sales" THEN SalesFresh ELSE SalesGone
  /\ PaymentFresh
  /\ UNCHANGED << activeNav, transactions, payPending, voidVars >>
  /\ UNCHANGED << adminVars, moreVars >>


\* A menu entry: setActiveNav(id).
navigate(id) ==
  /\ ~crashed /\ ~showPayment /\ ~Covered /\ Settled /\ ~DialogShown
  /\ id \in MenuEntries(user)
  /\ id /= activeNav
  /\ activeNav' = id
  /\ IF id = "cashier" THEN MountCashier
     ELSE IF activeNav = "cashier" THEN UnmountCashier /\ UNCHANGED << savedCart, crashed >>
     ELSE UNCHANGED << savedCart, crashed, cashierVars, lastCart >>
  /\ IF id = "sales" THEN SalesFresh ELSE SalesGone
  /\ toast' = None
  /\ UNCHANGED << showPayment, paymentData, transactions, paymentVars, voidVars >>
  /\ UNCHANGED << adminVars, moreVars >>


\* ------------------------------------------------------------- Sales
\* fetchAllData is answered: fetchOpenBills keeps the rows whose
\* payment_status is open_bill, or reports the failure; setIsLoading(false).
OpenRows(rows) == SelectSeq(rows, LAMBDA r : r.payment_status = "open_bill")

\* fetchPaidTransactions: .neq('payment_status', 'open_bill')
\* .neq('payment_status', 'voided'), as the table holds them.
PaidRows(rows) == SelectSeq(rows, LAMBDA r : r.payment_status \notin {"open_bill", "voided"})

fetchAllData(ok) ==
  /\ SalesShown /\ salesLoading
  /\ IF ok THEN /\ openBills' = OpenRows(transactions)
               /\ paidTransactions' = PaidRows(transactions)
               /\ toast' = None
     ELSE /\ toast' = Some([type |-> "error", title |-> "Gagal Memuat Data"])
          /\ UNCHANGED << openBills, paidTransactions >>
  /\ salesLoading' = FALSE
  /\ UNCHANGED << salesShowReceipt, selectedTransaction >>
  /\ UNCHANGED << homeVars, adminVars, moreVars, savedCart, crashed, cashierVars, lastCart, transactions,
                  paymentVars, voidVars >>

\* The buttons of a listed open bill can be clicked.
\* The Receipt of Sales lies over the page.
SalesReceiptShown == SalesShown /\ salesShowReceipt /\ IsSome(selectedTransaction)

BillButtonsShown == SalesShown /\ ~salesLoading /\ ~DialogShown /\ ~SalesReceiptShown

\* The Bayar button of an open bill: onPayBill(bill), Home.handlePayOpenBill.
handlePayOpenBill(k) ==
  /\ BillButtonsShown
  /\ k \in 1..Len(openBills)
  /\ paymentData' = Some([cart |-> CartOfItems(openBills[k].items),
                          grandTotal |-> openBills[k].total,
                          transactionId |-> Some(openBills[k].id)])
  /\ showPayment' = TRUE
  /\ SalesGone
  /\ PaymentFresh
  /\ toast' = None
  /\ UNCHANGED << activeNav, savedCart, crashed, cashierVars, lastCart, transactions,
                  payPending, voidVars >>
  /\ UNCHANGED << adminVars, moreVars >>


\* handleVoidBill up to its await: confirm(...) opens the dialog.  One call
\* of handleVoidBill is under way at a time.
handleVoidBill(k) ==
  /\ BillButtonsShown
  /\ voidPc = "idle"
  /\ k \in 1..Len(openBills)
  /\ voidPc' = "confirming"
  /\ voidBillId' = Some(openBills[k].id)
  /\ confirmed' = None
  /\ toast' = None
  /\ UNCHANGED << homeVars, adminVars, moreVars, savedCart, crashed, cashierVars, lastCart, transactions,
                  paymentVars, salesVars >>

\* ConfirmDialog.handleConfirm (answer) or handleCancel (the Batal button
\* and the backdrop): the promise is resolved and the dialog closes.
resolveConfirm(answer) ==
  /\ DialogShown
  /\ confirmed' = Some(answer)
  /\ voidPc' = "resolved"
  /\ toast' = None
  /\ UNCHANGED << homeVars, adminVars, moreVars, savedCart, crashed, cashierVars, lastCart, transactions,
                  paymentVars, salesVars, voidBillId >>

\* A handleVoidBill that does not look at the answer.
VoidProceeds_Always(answer) == TRUE

\* if (!confirmed) return
VoidProceeds(answer) == answer

\* handleVoidBill after its first await: it returns, or sends its update.
handleVoidBillResumes ==
  /\ voidPc = "resolved"
  /\ IF VoidProceeds(Get(confirmed))
       THEN voidPc' = "updating" /\ UNCHANGED << voidBillId, confirmed >>
       ELSE voidPc' = "idle" /\ voidBillId' = None /\ confirmed' = None
  /\ toast' = None
  /\ UNCHANGED << homeVars, adminVars, moreVars, savedCart, crashed, cashierVars, lastCart, transactions,
                  paymentVars, salesVars >>

\* update({payment_status: 'voided', void_reason, voided_at})
voidData ==
  [payment_status |-> "voided",
   void_reason |-> Some("Dibatalkan oleh kasir"),
   voided_at |-> Some("toISOString")]

\* The update of handleVoidBill is answered: toast and fetchAllData (ok) or
\* the error toast.
handleVoidBillDone(ok) ==
  /\ voidPc = "updating"
  /\ voidPc' = "idle"
  /\ IF ok
       THEN /\ transactions' = ApplyUpdate(transactions, Get(voidBillId), voidData)
            /\ toast' = Some([type |-> "success", title |-> "Open Bill Dibatalkan"])
            /\ salesLoading' = (SalesShown \/ salesLoading)
       ELSE /\ toast' = Some([type |-> "error", title |-> "Gagal Membatalkan"])
            /\ UNCHANGED << transactions, salesLoading >>
  /\ voidBillId' = None
  /\ confirmed' = None
  /\ UNCHANGED << homeVars, adminVars, moreVars, savedCart, crashed, cashierVars, lastCart, paymentVars, openBills,
                  paidTransactions, salesShowReceipt, selectedTransaction >>

\* ----------------------------------------------------------- Receipt
\* What a string | null, a name or a number | null counts as in a condition.
TruthyString(o) == IsSome(o) /\ Get(o) /= ""
TruthyChars(o) == IsSome(o) /\ Get(o) /= << >>
TruthyNumber(o) == IsSome(o) /\ Get(o) /= 0

Line(text, value) == [text |-> text, value |-> value]

\* String.prototype.toUpperCase on what the pages pass as paymentMethod.
MethodUpperCase(method) ==
  CASE method = "cash" -> "CASH"
    [] method = "qris" -> "QRIS"
    [] method = "debit" -> "DEBIT"
    [] OTHER -> method

\* The Receipt component, from Payment Info to Open Bill Info: the lines it
\* renders for its props.
Receipt(props) ==
  (IF TruthyString(props.paymentMethod)
     THEN << Line("PEMBAYARAN", None), Line("Metode:", props.paymentMethod) >>
          \o (IF props.paymentMethod = Some("cash") /\ TruthyNumber(props.cashReceived)
                THEN << Line("Bayar:", props.cashReceived),
                        Line("Kembalian:", IF TruthyNumber(props.cashChange)
                                             THEN props.cashChange ELSE Some(0)) >>
                ELSE << >>)
     ELSE << >>)
  \o (IF ~TruthyString(props.paymentMethod) /\ TruthyChars(props.customerName)
        THEN << Line("** OPEN BILL **", None), Line("Belum dibayar", None) >>
        ELSE << >>)

\* UniversalPrintService.generateReceiptHTML, paymentHTML and openBillHTML.
generateReceiptHTML(data) ==
  (IF TruthyString(data.paymentMethod)
     THEN << Line("PEMBAYARAN", None),
             Line("Metode:", Some(MethodUpperCase(Get(data.paymentMethod)))) >>
          \o (IF data.paymentMethod = Some("cash") /\ TruthyNumber(data.cashReceived)
                THEN << Line("Bayar:", data.cashReceived),
                        Line("Kembalian:", IF TruthyNumber(data.cashChange)
                                             THEN data.cashChange ELSE Some(0)) >>
                ELSE << >>)
     ELSE << >>)
  \o (IF ~TruthyString(data.paymentMethod) /\ TruthyChars(data.customerName)
        THEN << Line("** OPEN BILL **", None), Line("Belum dibayar", None) >>
        ELSE << >>)

\* The props Payment gives its Receipt.
PaymentReceiptProps(row) ==
  [paymentMethod |-> row.payment_method, cashReceived |-> row.cash_received,
   cashChange |-> row.cash_change, customerName |-> row.customer_name]

\* receiptData of Payment.handlePrint (x || null).
PaymentReceiptData(row) ==
  [paymentMethod |-> IF TruthyString(row.payment_method) THEN row.payment_method ELSE None,
   cashReceived |-> IF TruthyNumber(row.cash_received) THEN row.cash_received ELSE None,
   cashChange |-> IF TruthyNumber(row.cash_change) THEN row.cash_change ELSE None,
   customerName |-> IF TruthyChars(row.customer_name) THEN row.customer_name ELSE None]

\* The props Sales gives its Receipt, and receiptData of handlePrintReceipt.
SalesReceiptProps(row) ==
  [paymentMethod |-> IF TruthyString(row.payment_method) THEN row.payment_method
                     ELSE Some("OPEN BILL"),
   cashReceived |-> IF row.payment_method = Some("cash") THEN Some(row.total) ELSE None,
   cashChange |-> Some(0),
   customerName |-> row.customer_name]

PrintOpened == Some([type |-> "success", title |-> "Print Dialog Dibuka"])

receiptOnly(changed) ==
  /\ changed
  /\ UNCHANGED << homeVars, savedCart, crashed, cashierVars, lastCart, transactions,
                  paymentVars, voidVars, adminVars, reportsVars, loginVars,
                  printerVars, justifyVars,
                  openBills, salesLoading, paidTransactions >>

\* Payment.handlePrint: the print window opens, or the popup is blocked and
\* printReceipt throws.
handlePrint(opened) ==
  /\ ReceiptShown
  /\ receiptOnly(
       /\ IF opened
            THEN /\ printed' = Some([transaction |-> Get(transactionData),
                                     receipt |-> generateReceiptHTML(
                                                   PaymentReceiptData(Get(transactionData)))])
                 /\ toast' = PrintOpened
            ELSE /\ toast' = Some([type |-> "error", title |-> "Gagal Membuka Print Dialog"])
                 /\ UNCHANGED printed
       /\ UNCHANGED << salesShowReceipt, selectedTransaction >>)

\* Sales.handleShowReceipt(txn), from 'Lihat Struk' of a paid transaction or
\* of an open bill.
handleShowReceipt(list, k) ==
  /\ BillButtonsShown
  /\ k \in 1..Len(list)
  /\ receiptOnly(/\ selectedTransaction' = Some(list[k])
                 /\ salesShowReceipt' = TRUE
                 /\ toast' = None
                 /\ UNCHANGED printed)

handleCloseReceipt ==
  /\ SalesReceiptShown
  /\ receiptOnly(/\ salesShowReceipt' = FALSE
                 /\ selectedTransaction' = None
                 /\ toast' = None
                 /\ UNCHANGED printed)

\* Sales.handlePrintReceipt
handlePrintReceipt(opened) ==
  /\ SalesReceiptShown
  /\ receiptOnly(
       /\ IF opened
            THEN /\ printed' = Some([transaction |-> Get(selectedTransaction),
                                     receipt |-> generateReceiptHTML(
                                                   SalesReceiptProps(Get(selectedTransaction)))])
                 /\ toast' = PrintOpened
            ELSE /\ toast' = Some([type |-> "error", title |-> "Gagal Print"])
                 /\ UNCHANGED printed
       /\ UNCHANGED << salesShowReceipt, selectedTransaction >>)

\* ---------------------------------------------------------- Products
\* Products is given its userRole by the parent that renders it; Home passes
\* user.role.  The handlers below are those of a Products on screen.
shopVars == << homeVars, savedCart, crashed, cashierVars, lastCart, transactions,
               paymentVars, salesVars, voidVars, toast >>

EmptyForm == [name |-> << >>, price |-> << >>, category |-> << >>]

LowerCase == <<"e", "h", "i", "k", "o", "p", "t">>
UpperCase == <<"E", "H", "I", "K", "O", "P", "T">>
toUpperCase(ch) ==
  IF \E k \in 1..Len(LowerCase) : LowerCase[k] = ch
    THEN UpperCase[CHOOSE k \in 1..Len(LowerCase) : LowerCase[k] = ch] ELSE ch
toLowerCase(ch) ==
  IF \E k \in 1..Len(UpperCase) : UpperCase[k] = ch
    THEN LowerCase[CHOOSE k \in 1..Len(UpperCase) : UpperCase[k] = ch] ELSE ch
lower(str) == [k \in 1..Len(str) |-> toLowerCase(str[k])]

\* str.split(' ').map(word => first letter upper + rest lower).join(' ')
capitalizeWords(str) ==
  [k \in 1..Len(str) |->
     IF k = 1 \/ str[IF k = 1 THEN 1 ELSE k - 1] = " "
       THEN toUpperCase(str[k]) ELSE toLowerCase(str[k])]

\* A role check that lets every role through.
MayManage_Anyone(role) == TRUE

\* userRole !== 'admin' is what handleSubmit and handleDelete return on.
MayManage(role) == role = "admin"

Warning(message) == Some([type |-> "warning", message |-> message])

productsOnly(changed) ==
  /\ changed
  /\ UNCHANGED << shopVars, moreVars, user, userRole >>

openAddModal ==
  /\ ~isModalOpen /\ IsNone(confirmDialog)
  /\ productsOnly(/\ isModalOpen' = TRUE
                  /\ editingProduct' = None
                  /\ formData' = EmptyForm
                  /\ notification' = None
                  /\ UNCHANGED << productsTable, modalClosing, isSubmitting, confirmDialog,
                                  productPending >>)

openEditModal(product) ==
  /\ ~isModalOpen /\ IsNone(confirmDialog)
  /\ product \in productsTable
  /\ productsOnly(/\ isModalOpen' = TRUE
                  /\ editingProduct' = Some(product)
                  /\ formData' = [name |-> product.name, price |-> toString(product.price),
                                  category |-> product.category]
                  /\ notification' = None
                  /\ UNCHANGED << productsTable, modalClosing, isSubmitting, confirmDialog,
                                  productPending >>)

\* An input of the form: setFormData({...formData, [field]: value})
setFormData(field, value) ==
  /\ isModalOpen /\ IsNone(confirmDialog)
  /\ productsOnly(/\ formData' = [formData EXCEPT ![field] = value]
                  /\ notification' = None
                  /\ UNCHANGED << productsTable, editingProduct, isModalOpen, modalClosing,
                                  isSubmitting, confirmDialog, productPending >>)

\* closeModal: the form is closed and cleared by a timer of 200 ms.
closeModal ==
  /\ isModalOpen /\ IsNone(confirmDialog)
  /\ productsOnly(/\ modalClosing' = TRUE
                  /\ notification' = None
                  /\ UNCHANGED << productsTable, formData, editingProduct, isModalOpen,
                                  isSubmitting, confirmDialog, productPending >>)

closeModalTimer ==
  /\ modalClosing
  /\ productsOnly(/\ modalClosing' = FALSE
                  /\ isModalOpen' = FALSE
                  /\ editingProduct' = None
                  /\ formData' = EmptyForm
                  /\ notification' = None
                  /\ UNCHANGED << productsTable, isSubmitting, confirmDialog, productPending >>)

\* products.find(p => p.name.toLowerCase() === name.toLowerCase() && p.id !== editingProduct?.id)
NameTaken(name) ==
  \E q \in productsTable :
    /\ lower(q.name) = lower(name)
    /\ IF IsSome(editingProduct) THEN q.id /= Get(editingProduct).id ELSE TRUE

\* The columns handleSubmit writes (no image is chosen in the form).
SubmittedColumns ==
  [name |-> capitalizeWords(trim(formData.name)),
   price |-> parseFloat(formData.price),
   category |-> capitalizeWords(trim(formData.category))]

\* What handleSubmit returns on before setIsSubmitting(true): None, or the
\* message of its warning.
SubmitRefused ==
  IF trim(formData.name) = << >> THEN Some("Nama produk harus diisi")
  ELSE IF formData.price = << >> \/ parseFloat(formData.price) <= 0
    THEN Some("Harga produk harus diisi dengan angka yang valid")
  ELSE IF trim(formData.category) = << >> THEN Some("Kategori harus diisi")
  ELSE IF ~MayManage(userRole) THEN Some("Hanya admin yang dapat mengelola produk")
  ELSE None

\* handleSubmit up to its write; the submit button is disabled while
\* isSubmitting.  The table holds MaxProducts rows.
handleSubmit ==
  /\ isModalOpen /\ IsNone(confirmDialog) /\ ~isSubmitting
  /\ IsSome(editingProduct) \/ Cardinality(productsTable) < MaxProducts
  /\ IF IsSome(SubmitRefused)
       THEN /\ notification' = Warning(Get(SubmitRefused))
            /\ UNCHANGED << isSubmitting, productPending >>
       ELSE IF NameTaken(SubmittedColumns.name)
         THEN /\ notification' = Warning("Nama produk sudah ada, silakan gunakan nama lain")
              /\ UNCHANGED << isSubmitting, productPending >>
         ELSE /\ isSubmitting' = TRUE
              /\ notification' = None
              /\ productPending' =
                   IF IsSome(editingProduct)
                     THEN Some([kind |-> "update", id |-> Get(editingProduct).id,
                                columns |-> SubmittedColumns])
                     ELSE Some([kind |-> "insert", columns |-> SubmittedColumns])
  /\ UNCHANGED << shopVars, moreVars, user, userRole, productsTable, formData, editingProduct,
                  isModalOpen, modalClosing, confirmDialog >>

\* An id the table gives to a new row.
NewId == CHOOSE id \in 1..(MaxProducts + 1) : \A q \in productsTable : q.id /= id

\* The table after a request of Products.
Written(request) ==
  IF request.kind = "insert"
    THEN productsTable \cup {[id |-> NewId, name |-> request.columns.name,
                              price |-> request.columns.price,
                              category |-> request.columns.category]}
  ELSE IF request.kind = "update"
    THEN {IF q.id = request.id
            THEN [id |-> q.id, name |-> request.columns.name, price |-> request.columns.price,
                  category |-> request.columns.category]
            ELSE q : q \in productsTable}
  ELSE IF request.kind = "delete"
    THEN {q \in productsTable : q.id /= request.id}
  ELSE {IF q.category = request.category
          THEN [id |-> q.id, name |-> q.name, price |-> q.price, category |-> << >>]
          ELSE q : q \in productsTable}

\* handleSubmit after its write: the notification, fetchProducts and
\* closeModal, or the catch block; setIsSubmitting(false).
handleSubmitDone(ok) ==
  /\ IsSome(productPending) /\ Get(productPending).kind \in {"insert", "update"}
  /\ IF ok
       THEN /\ productsTable' = Written(Get(productPending))
            /\ notification' = Some([type |-> "success", message |-> "berhasil"])
            /\ modalClosing' = TRUE
       ELSE /\ notification' = Some([type |-> "error", message |-> "Gagal"])
            /\ UNCHANGED << productsTable, modalClosing >>
  /\ isSubmitting' = FALSE
  /\ productPending' = None
  /\ UNCHANGED << shopVars, moreVars, user, userRole, formData, editingProduct, isModalOpen,
                  confirmDialog >>

\* handleDelete up to its confirmation dialog.
handleDelete(id) ==
  /\ IsNone(confirmDialog) /\ ~isModalOpen
  /\ \E q \in productsTable : q.id = id
  /\ IF ~MayManage(userRole)
       THEN /\ notification' = Warning("Hanya admin yang dapat menghapus produk")
            /\ UNCHANGED confirmDialog
       ELSE /\ confirmDialog' = Some([kind |-> "delete", id |-> id])
            /\ notification' = None
  /\ UNCHANGED << shopVars, moreVars, user, userRole, productsTable, formData, editingProduct,
                  isModalOpen, modalClosing, isSubmitting, productPending >>

\* The x of a category in the form's category list: handleRemoveCategory.
handleRemoveCategory(category) ==
  /\ isModalOpen /\ IsNone(confirmDialog)
  /\ category /= << >> /\ \E q \in productsTable : q.category = category
  /\ confirmDialog' = Some([kind |-> "category", category |-> category])
  /\ notification' = None
  /\ UNCHANGED << shopVars, moreVars, user, userRole, productsTable, formData, editingProduct,
                  isModalOpen, modalClosing, isSubmitting, productPending >>

\* The dialog's Batal button and backdrop: closeConfirmDialog.
closeConfirmDialog ==
  /\ IsSome(confirmDialog) /\ IsNone(productPending)
  /\ confirmDialog' = None
  /\ notification' = None
  /\ UNCHANGED << shopVars, moreVars, user, userRole, productsTable, formData, editingProduct,
                  isModalOpen, modalClosing, isSubmitting, productPending >>

\* The dialog's confirm button: confirmDialog.onConfirm() sends its write.
onConfirm ==
  /\ IsSome(confirmDialog) /\ IsNone(productPending)
  /\ productPending' = confirmDialog
  /\ notification' = None
  /\ UNCHANGED << shopVars, moreVars, user, userRole, productsTable, formData, editingProduct,
                  isModalOpen, modalClosing, isSubmitting, confirmDialog >>

\* onConfirm after its write: the notification and closeConfirmDialog.
onConfirmDone(ok) ==
  /\ IsSome(productPending) /\ Get(productPending).kind \in {"delete", "category"}
  /\ IF ok
       THEN /\ productsTable' = Written(Get(productPending))
            /\ notification' = Some([type |-> "success", message |-> "berhasil"])
            /\ formData' = IF /\ Get(productPending).kind = "category"
                              /\ formData.category = Get(productPending).category
                             THEN [formData EXCEPT !.category = << >>] ELSE formData
       ELSE /\ notification' = Some([type |-> "error", message |-> "Gagal"])
            /\ UNCHANGED << productsTable, formData >>
  /\ confirmDialog' = None
  /\ productPending' = None
  /\ UNCHANGED << shopVars, moreVars, user, userRole, editingProduct, isModalOpen, modalClosing,
                  isSubmitting >>

\* ----------------------------------------------------------- Reports
\* The quotient a / b of two numbers, kept as the pair it is the quotient of.
Quotient(a, b) == [num |-> a, den |-> b]
Zero == [num |-> 0, den |-> 1]

\* A filter that lets the open bills through as well.
IsPaid_NotVoided(t) == t.payment_status /= "voided"

\* t => t.payment_status === 'paid'
IsPaid(t) == t.payment_status = "paid"

IsOpenBill(t) == t.payment_status = "open_bill"

\* calculateStats, the value it hands to setOverviewStats (todaySales, which
\* reads the transaction_date column, is left out).
calculateStats(data) ==
  LET paid == SelectSeq(data, IsPaid)
      openBillsCount == Len(SelectSeq(data, IsOpenBill))
      totalSales == SumSeq([i \in 1..Len(paid) |-> paid[i].total])
      totalTransactions == Len(paid)
      averageTransaction == IF totalTransactions > 0
                              THEN Quotient(totalSales, totalTransactions)
                              ELSE Zero
  IN  [totalSales |-> totalSales,
       totalTransactions |-> totalTransactions,
       averageTransaction |-> averageTransaction,
       openBills |-> openBillsCount]

\* productMap is a Map: its entries are kept in the order of their first set.
\* productMap.get(item.product_name) || {quantity: 0, revenue: 0}, then set.
productMapSet(productMap, item) ==
  IF \E k \in 1..Len(productMap) : productMap[k].name = item.product_name
    THEN [k \in 1..Len(productMap) |->
            IF productMap[k].name = item.product_name
              THEN [name |-> productMap[k].name,
                    quantity |-> productMap[k].quantity + item.quantity,
                    revenue |-> productMap[k].revenue + item.totalPrice]
              ELSE productMap[k]]
    ELSE Append(productMap, [name |-> item.product_name, quantity |-> item.quantity,
                             revenue |-> item.totalPrice])

RECURSIVE forEachItem(_, _)
forEachItem(productMap, items) ==
  IF items = << >> THEN productMap
  ELSE forEachItem(productMapSet(productMap, Head(items)), Tail(items))

RECURSIVE forEachTransaction(_, _)
forEachTransaction(productMap, paid) ==
  IF paid = << >> THEN productMap
  ELSE forEachTransaction(forEachItem(productMap, Head(paid).items),
                          Tail(paid))

\* Array.prototype.sort is stable: an entry goes behind every entry that the
\* comparison b.total_quantity - a.total_quantity does not put behind it.
RECURSIVE sortInsert(_, _)
sortInsert(sorted, e) ==
  IF sorted = << >> THEN << e >>
  ELSE IF Head(sorted).total_quantity >= e.total_quantity
         THEN << Head(sorted) >> \o sortInsert(Tail(sorted), e)
         ELSE << e >> \o sorted

RECURSIVE sort(_)
sort(list) ==
  IF list = << >> THEN << >>
  ELSE sortInsert(sort(SubSeq(list, 1, Len(list) - 1)), list[Len(list)])

\* .slice(0, 5)
BestSellersKept == 5
slice(list, n) == SubSeq(list, 1, IF Len(list) < n THEN Len(list) ELSE n)

\* item.product_name of an item that is null is a TypeError.
calculateBestSellersThrows(data) ==
  \E i \in 1..Len(data) :
    /\ IsPaid(data[i])
    /\ \E k \in 1..Len(data[i].items) : data[i].items[k] = Null

\* calculateBestSellers, the list it hands to setBestSellers.
calculateBestSellers(data) ==
  LET paid == SelectSeq(data, IsPaid)
      productMap == forEachTransaction(<< >>, paid)
      entries == [k \in 1..Len(productMap) |->
                    [product_name |-> productMap[k].name,
                     total_quantity |-> productMap[k].quantity,
                     total_revenue |-> productMap[k].revenue]]
  IN  slice(sort(entries), BestSellersKept)

ReportsShown == ~crashed /\ activeNav = "reports" /\ user = "admin" /\ ~showPayment

DateRanges == {"today", "week", "month", "all"}

reportsOnly(changed) ==
  /\ changed
  /\ UNCHANGED << homeVars, savedCart, crashed, cashierVars, lastCart, transactions,
                  paymentVars, salesVars, voidVars, adminVars, loginVars, printVars,
                  printerVars, justifyVars >>

\* setDateRange(range) and the effect on [dateRange]: fetchTransactions up to
\* its await.  One fetch is under way at a time.
setDateRange(range) ==
  /\ ReportsShown
  /\ ~reportsPending
  /\ range /= dateRange
  /\ reportsOnly(/\ dateRange' = range
                 /\ reportsLoading' = TRUE
                 /\ reportsPending' = TRUE
                 /\ toast' = None
                 /\ UNCHANGED << reportData, overviewStats, bestSellers >>)

RECURSIVE Reverse(_)
Reverse(s) == IF s = << >> THEN << >> ELSE Reverse(Tail(s)) \o << Head(s) >>

\* .order('transaction_date', {ascending: false}) with .gte('transaction_date',
\* dateFilter): rows are inserted with the date of their insert, so the answer
\* is the rows behind some row, latest first.
Fetched(rows, since) == Reverse(SubSeq(rows, since + 1, Len(rows)))

ReportsError == Some([type |-> "error", title |-> "Gagal Memuat Data"])

\* fetchTransactions from its await on: the rows or the error arrive.
fetchTransactionsDone(ok, since) ==
  /\ reportsPending
  /\ since \in 0..Len(transactions)
  /\ dateRange = "all" => since = 0
  /\ LET data == Fetched(transactions, since)
     IN  reportsOnly(
           /\ IF ok
                THEN /\ reportData' = data
                     /\ overviewStats' = calculateStats(data)
                     /\ IF calculateBestSellersThrows(data)
                          THEN toast' = ReportsError /\ UNCHANGED bestSellers
                          ELSE toast' = None /\ bestSellers' = calculateBestSellers(data)
                ELSE /\ toast' = ReportsError
                     /\ UNCHANGED << reportData, overviewStats, bestSellers >>
           /\ reportsLoading' = FALSE
           /\ reportsPending' = FALSE
           /\ UNCHANGED dateRange)

ReportsFresh ==
  /\ reportData = << >>
  /\ overviewStats = [totalSales |-> 0, totalTransactions |-> 0,
                      averageTransaction |-> Zero, openBills |-> 0]
  /\ bestSellers = << >>
  /\ reportsLoading = TRUE
  /\ dateRange = "all"

\* ------------------------------------------------------- App and Login
\* Rows of the users table.
Users ==
  { [id |-> "u1", username |-> "admin", role |-> "admin",
     pin |-> <<"1", "2", "3", "4", "5", "6">>],
    [id |-> "u2", username |-> "kasir", role |-> "kasir",
     pin |-> <<"9", "9", "9", "9", "9", "9">>] }

PinBoxes == 6
EmptyPin == [k \in 1..PinBoxes |-> << >>]

\* pin.join('')
RECURSIVE join(_)
join(boxes) == IF boxes = << >> THEN << >> ELSE Head(boxes) \o join(Tail(boxes))

\* /^\d*$/.test(value)
IsDigits(value) == \A k \in 1..Len(value) : value[k] \in Digits

\* value.slice(-1)
LastChar(value) == IF value = << >> THEN << >> ELSE << value[Len(value)] >>

LoginShown == IsNone(session)

loginOnly(changed) ==
  /\ changed
  /\ toast' = None
  /\ UNCHANGED << homeVars, savedCart, crashed, cashierVars, lastCart, transactions,
                  paymentVars, salesVars, voidVars, adminVars, reportsVars, printVars,
                  printerVars, justifyVars >>

\* handlePinChange(index, value); the boxes are disabled while isLoading or
\* success.  index counts from 1 here.
handlePinChange(index, value) ==
  /\ LoginShown
  /\ ~(loginLoading \/ success)
  /\ loginOnly(/\ IF ~IsDigits(value)
                    THEN UNCHANGED << pin, loginError >>
                    ELSE /\ pin' = [pin EXCEPT ![index] = LastChar(value)]
                         /\ loginError' = ""
               /\ UNCHANGED << session, savedUser, loginLoading, success, loginPending,
                               loginTimers >>)

\* A check that lets every PIN through.
PinComplete_Any(pinString) == TRUE

\* pinString.length !== 6 is what handleSubmit returns on.
PinComplete(pinString) == Len(pinString) = 6

\* handleSubmit up to its await.  The form cannot be submitted while
\* isLoading or success: the boxes and the button are disabled.
handleLoginSubmit ==
  /\ LoginShown
  /\ ~(loginLoading \/ success)
  /\ loginOnly(/\ IF ~PinComplete(join(pin))
                    THEN /\ loginError' = "Masukkan 6 digit PIN"
                         /\ UNCHANGED << loginLoading, loginPending >>
                    ELSE /\ loginLoading' = TRUE
                         /\ loginError' = ""
                         /\ loginPending' = Some([pin |-> join(pin)])
               /\ UNCHANGED << session, savedUser, pin, success, loginTimers >>)

\* supabase.from('users').select('*').eq('pin', pinString).single(): the one
\* row with that pin, or an error when there is none or more than one.
SingleUser(pinString) ==
  LET rows == {u \in Users : u.pin = pinString}
  IN  IF Cardinality(rows) = 1
        THEN [data |-> Some(CHOOSE u \in rows : TRUE), error |-> FALSE]
        ELSE [data |-> None, error |-> TRUE]

LoginOutcomes == {"answer", "error", "throws"}

\* handleSubmit from its await on: the query answers, answers with an error,
\* or the await throws.
handleLoginAnswered(outcome) ==
  /\ IsSome(loginPending)
  /\ LET answer == IF outcome = "answer" THEN SingleUser(Get(loginPending).pin)
                   ELSE [data |-> None, error |-> TRUE]
     IN  loginOnly(
           /\ IF outcome = "throws"
                THEN /\ loginError' = "Terjadi kesalahan"
                     /\ pin' = EmptyPin
                     /\ UNCHANGED << success, loginTimers >>
                ELSE IF answer.error \/ IsNone(answer.data)
                  THEN /\ loginError' = "PIN salah"
                       /\ pin' = EmptyPin
                       /\ UNCHANGED << success, loginTimers >>
                  ELSE /\ success' = TRUE
                       /\ loginTimers' = Append(loginTimers, Get(answer.data))
                       /\ UNCHANGED << pin, loginError >>
           /\ loginLoading' = FALSE
           /\ loginPending' = None
           /\ UNCHANGED << session, savedUser >>)

\* The timeout of handleSubmit fires: onLogin({id, username, role}), which is
\* App.handleLogin.  App renders Home instead of Login, and Home starts from
\* its initial state.
onLogin ==
  /\ loginTimers /= << >>
  /\ LET data == Head(loginTimers)
         userData == [id |-> data.id, username |-> data.username, role |-> data.role]
     IN  /\ session' = Some(userData)
         /\ savedUser' = Some(userData)
         /\ user' = userData.role
  /\ loginTimers' = Tail(loginTimers)
  /\ toast' = None
  /\ UNCHANGED << pin, loginError, loginLoading, success, loginPending >>
  /\ UNCHANGED << homeVars, savedCart, crashed, cashierVars, lastCart, transactions,
                  paymentVars, salesVars, voidVars, reportsVars, printVars,
                  printerVars, justifyVars,
                  userRole, productsTable, formData, editingProduct, isModalOpen,
                  modalClosing, isSubmitting, confirmDialog, notification, productPending >>

LoginFresh ==
  /\ pin = EmptyPin /\ loginError = "" /\ loginLoading = FALSE /\ success = FALSE
  /\ loginPending = None /\ loginTimers = << >>

\* Home is rendered for the user whose role it was given.
SignedIn ==
  /\ session = Some(CHOOSE u \in [id : {"u1", "u2"}, username : {"admin", "kasir"},
                                  role : {"admin", "kasir"}] :
                      u.role = user /\ \E row \in Users : row.id = u.id /\ row.username = u.username
                                                         /\ row.role = u.role)
  /\ savedUser = session

\* ------------------------------------------------------- PrinterService
\* Text is a sequence of one-character strings; a control character is
\* written by its name ("ESC" is \x1B, "GS" \x1D, "LF" \x0A, "NUL" \x00,
\* "SOH" \x01).
CMD_INIT == <<"ESC", "@">>
CMD_CENTER == <<"ESC", "a", "SOH">>
CMD_LEFT == <<"ESC", "a", "NUL">>
CMD_BOLD_ON == <<"ESC", "E", "SOH">>
CMD_BOLD_OFF == <<"ESC", "E", "NUL">>
CMD_DOUBLE_ON == <<"ESC", "!", "0">>
CMD_DOUBLE_OFF == <<"ESC", "!", "NUL">>
CMD_SMALL == <<"ESC", "!", "SOH">>
CMD_FEED == <<"LF">>
CMD_CUT == <<"GS", "V", "NUL">>

LineWidth == 32
LINE_SINGLE == [k \in 1..LineWidth |-> "-"]
LINE_DOUBLE == [k \in 1..LineWidth |-> "="]
LINE_DASHED == [k \in 1..LineWidth |-> IF k % 2 = 1 THEN "-" ELSE " "]

\* str.substring(start, end): an index below 0 counts as 0, one beyond the
\* length as the length, and the two are swapped when start > end.
substring(str, start, end) ==
  LET clamp(n) == IF n < 0 THEN 0 ELSE IF n > Len(str) THEN Len(str) ELSE n
      from == IF clamp(start) < clamp(end) THEN clamp(start) ELSE clamp(end)
      upto == IF clamp(start) < clamp(end) THEN clamp(end) ELSE clamp(start)
  IN  SubSeq(str, from + 1, upto)

\* ' '.repeat(count)
repeat(ch, count) == [k \in 1..count |-> ch]

justifyLine(left, right, maxLength) ==
  LET totalLength == Len(left) + Len(right)
  IN  IF totalLength >= maxLength
        THEN substring(left, 0, maxLength - Len(right)) \o right
        ELSE left \o repeat(" ", maxLength - totalLength) \o right

\* new Intl.NumberFormat('id-ID').format(price) of a non-negative integer:
\* the digits in groups of three, with "." between the groups.
RECURSIVE NumberFormat(_)
NumberFormat(digits) ==
  IF Len(digits) <= 3 THEN digits
  ELSE NumberFormat(SubSeq(digits, 1, Len(digits) - 3)) \o <<".">>
         \o SubSeq(digits, Len(digits) - 2, Len(digits))

formatPrice(price) == <<"R", "p", " ">> \o NumberFormat(toString(price))

\* paymentMethod.toUpperCase()
AsciiLower == <<"a", "b", "c", "d", "e", "f", "g", "h", "i", "j", "k", "l", "m", "n", "o", "p", "q", "r", "s", "t", "u", "v", "w", "x", "y", "z">>
AsciiUpper == <<"A", "B", "C", "D", "E", "F", "G", "H", "I", "J", "K", "L", "M", "N", "O", "P", "Q", "R", "S", "T", "U", "V", "W", "X", "Y", "Z">>
upper(str) ==
  [k \in 1..Len(str) |->
     IF \E j \in 1..Len(AsciiLower) : AsciiLower[j] = str[k]
       THEN AsciiUpper[CHOOSE j \in 1..Len(AsciiLower) : AsciiLower[j] = str[k]]
       ELSE str[k]]

\* item.addOns.forEach(...)
RECURSIVE AddonLines(_)
AddonLines(addOns) ==
  IF addOns = << >> THEN << >>
  ELSE justifyLine(<<" ", " ", "-", " ">> \o Head(addOns).name,
                   <<"+">> \o formatPrice(Head(addOns).price), LineWidth) \o CMD_FEED
         \o AddonLines(Tail(addOns))

\* The body of receiptData.items.forEach(...).  totalPrice is a multiple of
\* quantity, as Cashier computes it.
ItemLines(item) ==
  CMD_BOLD_ON
    \o justifyLine(item.product_name, formatPrice(item.totalPrice \div item.quantity),
                   LineWidth)
    \o CMD_FEED \o CMD_BOLD_OFF
    \o (IF TruthyChars(item.variant) THEN <<" ", " ", "-", " ">> \o Get(item.variant) \o CMD_FEED
        ELSE << >>)
    \o (IF IsSome(item.addOns) THEN AddonLines(Get(item.addOns)) ELSE << >>)
    \o justifyLine(<<" ", " ">> \o toString(item.quantity) \o <<"x">>,
                   CMD_BOLD_ON \o formatPrice(item.totalPrice) \o CMD_BOLD_OFF, LineWidth)
    \o CMD_FEED \o CMD_FEED

RECURSIVE ItemsLines(_)
ItemsLines(items) ==
  IF items = << >> THEN << >> ELSE ItemLines(Head(items)) \o ItemsLines(Tail(items))

\* Payment info of printReceipt.
PaymentLines(receiptData) ==
  IF TruthyChars(receiptData.paymentMethod)
    THEN CMD_CENTER \o CMD_BOLD_ON \o <<"P", "E", "M", "B", "A", "Y", "A", "R", "A", "N">> \o CMD_FEED \o CMD_LEFT \o CMD_BOLD_OFF
           \o justifyLine(<<"M", "e", "t", "o", "d", "e", ":">>, upper(Get(receiptData.paymentMethod)), LineWidth)
           \o CMD_FEED
           \o (IF receiptData.paymentMethod = Some(<<"c", "a", "s", "h">>)
                  /\ TruthyNumber(receiptData.cashReceived)
                 THEN justifyLine(<<"B", "a", "y", "a", "r", ":">>, formatPrice(Get(receiptData.cashReceived)),
                                  LineWidth) \o CMD_FEED
                        \o CMD_BOLD_ON
                        \o justifyLine(<<"K", "e", "m", "b", "a", "l", "i", "a", "n", ":">>,
                                       formatPrice(IF TruthyNumber(receiptData.cashChange)
                                                     THEN Get(receiptData.cashChange) ELSE 0),
                                       LineWidth)
                        \o CMD_FEED \o CMD_BOLD_OFF
                 ELSE << >>)
           \o (IF receiptData.paymentMethod \in {Some(<<"q", "r", "i", "s">>), Some(<<"d", "e", "b", "i", "t">>)}
                  /\ TruthyChars(receiptData.referenceNumber)
                 THEN justifyLine(<<"R", "e", "f", ":">>, Get(receiptData.referenceNumber), LineWidth)
                        \o CMD_FEED
                 ELSE << >>)
           \o LINE_DASHED \o CMD_FEED
    ELSE << >>

\* Open Bill indicator of printReceipt.
OpenBillLines(receiptData) ==
  IF ~TruthyChars(receiptData.paymentMethod) /\ TruthyChars(receiptData.customerName)
    THEN CMD_CENTER \o CMD_BOLD_ON \o <<"*", "*", " ", "O", "P", "E", "N", " ", "B", "I", "L", "L", " ", "*", "*">> \o CMD_FEED \o CMD_BOLD_OFF
           \o <<"B", "e", "l", "u", "m", " ", "d", "i", "b", "a", "y", "a", "r">> \o CMD_FEED \o LINE_DASHED \o CMD_FEED
    ELSE << >>

\* The text printReceipt builds.  dateStr is what date.toLocaleString('id-ID',
\* ...) made of transactionDate.
ReceiptText(receiptData) ==
  CMD_INIT \o CMD_CENTER \o CMD_DOUBLE_ON \o CMD_BOLD_ON \o <<"G", "O", "O", "D", " ", "W", "A", "Y", "S">> \o CMD_FEED
    \o CMD_DOUBLE_OFF \o CMD_BOLD_OFF \o CMD_SMALL \o <<"S", "i", "s", "t", "e", "m", " ", "K", "a", "s", "i", "r", " ", "D", "i", "g", "i", "t", "a", "l">> \o CMD_FEED
    \o CMD_LEFT \o LINE_DOUBLE \o CMD_FEED
    \o CMD_SMALL
    \o justifyLine(<<"K", "a", "s", "i", "r", ":">>, receiptData.cashierName, LineWidth) \o CMD_FEED
    \o justifyLine(<<"T", "a", "n", "g", "g", "a", "l", ":">>, receiptData.dateStr, LineWidth) \o CMD_FEED
    \o justifyLine(<<"N", "o", ".", "T", "r", "x", ":">>, receiptData.transactionNumber, LineWidth) \o CMD_FEED
    \o (IF TruthyChars(receiptData.customerName)
          THEN justifyLine(<<"P", "e", "l", "a", "n", "g", "g", "a", "n", ":">>, Get(receiptData.customerName), LineWidth)
                 \o CMD_FEED
          ELSE << >>)
    \o LINE_DASHED \o CMD_FEED
    \o CMD_CENTER \o CMD_BOLD_ON \o <<"R", "I", "N", "C", "I", "A", "N", " ", "P", "E", "S", "A", "N", "A", "N">> \o CMD_FEED \o CMD_LEFT \o CMD_BOLD_OFF
    \o LINE_DASHED \o CMD_FEED
    \o ItemsLines(receiptData.items)
    \o LINE_DASHED \o CMD_FEED
    \o justifyLine(<<"S", "u", "b", "t", "o", "t", "a", "l", ":">>, formatPrice(receiptData.subtotal), LineWidth) \o CMD_FEED
    \o CMD_BOLD_ON \o justifyLine(<<"T", "O", "T", "A", "L", ":">>, formatPrice(receiptData.total), LineWidth)
    \o CMD_FEED \o CMD_BOLD_OFF
    \o LINE_DASHED \o CMD_FEED
    \o PaymentLines(receiptData)
    \o OpenBillLines(receiptData)
    \o CMD_CENTER \o CMD_SMALL \o <<"T", "e", "r", "i", "m", "a", " ", "k", "a", "s", "i", "h", "!">> \o CMD_FEED
    \o <<"a", "t", "a", "s", " ", "k", "u", "n", "j", "u", "n", "g", "a", "n", " ", "A", "n", "d", "a">> \o CMD_FEED \o CMD_FEED
    \o <<"P", "o", "w", "e", "r", "e", "d", " ", "b", "y", " ", "G", "o", "o", "d", " ", "W", "a", "y", "s", " ", "P", "O", "S">> \o CMD_FEED \o CMD_FEED \o CMD_FEED \o CMD_FEED
    \o CMD_CUT

\* The text testPrint builds.  now is new Date().toLocaleString('id-ID').
TestText(now) ==
  CMD_INIT \o CMD_CENTER \o CMD_DOUBLE_ON \o CMD_BOLD_ON \o <<"T", "E", "S", "T", " ", "P", "R", "I", "N", "T">> \o CMD_FEED
    \o CMD_DOUBLE_OFF \o CMD_BOLD_OFF \o LINE_DOUBLE \o CMD_FEED
    \o <<"P", "r", "i", "n", "t", "e", "r", " ", "c", "o", "n", "n", "e", "c", "t", "e", "d", "!">> \o CMD_FEED \o CMD_FEED
    \o now \o CMD_FEED \o CMD_FEED
    \o LINE_SINGLE \o CMD_FEED
    \o CMD_LEFT \o CMD_SMALL \o <<"G", "o", "o", "d", " ", "W", "a", "y", "s", " ", "P", "O", "S", " ", "S", "y", "s", "t", "e", "m">> \o CMD_FEED \o CMD_FEED \o CMD_FEED
    \o CMD_CUT

\* new TextEncoder().encode(data): UTF-8, one byte for an ASCII character,
\* two for "e-acute" (U+00E9) and three for "euro" (U+20AC).  A byte is
\* written as the ASCII character it stands for or as its hexadecimal value.
Utf8(ch) ==
  CASE ch = "e-acute" -> <<"C3", "A9">>
    [] ch = "euro" -> <<"E2", "82", "AC">>
    [] OTHER -> <<ch>>

\* The text is encoded half by half.
RECURSIVE encode(_)
encode(data) ==
  IF data = << >> THEN << >>
  ELSE IF Len(data) = 1 THEN Utf8(data[1])
  ELSE encode(SubSeq(data, 1, Len(data) \div 2))
         \o encode(SubSeq(data, Len(data) \div 2 + 1, Len(data)))

chunkSize == 20

\* encoded.slice(i, i + chunkSize), i counted from 0
ChunkAt_OneShort(encoded, i) ==
  SubSeq(encoded, i + 1,
         IF i + chunkSize < Len(encoded) THEN i + chunkSize - 1 ELSE Len(encoded))

ChunkAt(encoded, i) ==
  SubSeq(encoded, i + 1,
         IF i + chunkSize < Len(encoded) THEN i + chunkSize ELSE Len(encoded))

\* What navigator.bluetooth.requestDevice can resolve with: a printer, and a
\* device whose gatt attribute is null.
Devices == { [id |-> "EP5859", gatt |-> TRUE], [id |-> "blocked", gatt |-> FALSE] }

\* detectWebBluetoothSupport() and navigator.bluetooth
Platforms == {"supported", "unsupported", "no bluetooth"}

getConnectionStatus == isConnected /\ device /= None /\ characteristic /= None

Without(s, k) == [j \in 1..(Len(s) - 1) |-> IF j < k THEN s[j] ELSE s[j + 1]]

printerOnly(changed) ==
  /\ changed
  /\ toast' = None
  /\ UNCHANGED << homeVars, savedCart, crashed, cashierVars, lastCart, transactions,
                  paymentVars, salesVars, voidVars, adminVars, reportsVars, loginVars,
                  printVars, justifyVars >>

\* How a call of the service ended: it returned or it threw, and the number
\* of bytes it had written by then.
Returned(op, written) ==
  Some([op |-> op, result |-> "returned", error |-> "", written |-> written])
Threw(op, error, written) ==
  Some([op |-> op, result |-> "threw", error |-> error, written |-> written])

ConnectOps == {"connect"}
SendOps == {"printReceipt", "testPrint", "sendData"}

\* connect() up to its first await.
connect(platform) ==
  /\ Len(calls) < MaxCalls
  /\ printerOnly(
       /\ IF platform = "supported"
            THEN /\ calls' = Append(calls, [op |-> "connect", pc |-> "requestDevice",
                                            server |-> None])
                 /\ UNCHANGED << isConnected, lastCall >>
            ELSE /\ isConnected' = FALSE
                 /\ lastCall' = Threw("connect",
                                      IF platform = "unsupported" THEN "platformInfo.message"
                                      ELSE "Web Bluetooth API tidak tersedia", 0)
                 /\ UNCHANGED calls
       /\ UNCHANGED << device, characteristic, gattConnected, linked >>)

\* The catch block of connect().
connectThrows(k, error) ==
  /\ isConnected' = FALSE
  /\ calls' = Without(calls, k)
  /\ lastCall' = Threw("connect", error, 0)

\* connect() from one await to the next, or to its end.  found is the device
\* requestDevice resolved with (None when the promise was rejected); resolved
\* tells whether the later promises were resolved or rejected.  A GATT
\* promise of a server that is no longer connected is rejected.
connectResumes(k, found, resolved) ==
  /\ k \in 1..Len(calls)
  /\ calls[k].op \in ConnectOps
  /\ LET call == calls[k]
     IN  printerOnly(
           CASE call.pc = "requestDevice" ->
                  /\ resolved = IsSome(found)
                  /\ IF IsNone(found)
                       THEN /\ connectThrows(k, "NotFoundError")
                            /\ UNCHANGED << device, gattConnected >>
                       ELSE /\ device' = found
                            /\ IF Get(found).gatt
                                 THEN /\ calls' = [calls EXCEPT ![k].pc = "gatt.connect",
                                                                ![k].server = Some(Get(found).id)]
                                      /\ UNCHANGED << isConnected, lastCall >>
                                 ELSE connectThrows(k, "GATT tidak tersedia")
                            /\ UNCHANGED gattConnected
                  /\ UNCHANGED << characteristic, linked >>
             [] call.pc = "gatt.connect" ->
                  /\ IsNone(found)
                  /\ IF resolved
                       THEN /\ gattConnected' = gattConnected \cup {Get(call.server)}
                            /\ calls' = [calls EXCEPT ![k].pc = "getPrimaryService"]
                            /\ UNCHANGED << isConnected, lastCall >>
                       ELSE /\ connectThrows(k, "NetworkError")
                            /\ UNCHANGED gattConnected
                  /\ UNCHANGED << device, characteristic, linked >>
             [] call.pc = "getPrimaryService" ->
                  /\ IsNone(found)
                  /\ resolved => Get(call.server) \in gattConnected
                  /\ IF resolved
                       THEN /\ calls' = [calls EXCEPT ![k].pc = "getCharacteristic"]
                            /\ UNCHANGED << isConnected, lastCall >>
                       ELSE connectThrows(k, "NetworkError")
                  /\ UNCHANGED << device, characteristic, gattConnected, linked >>
             [] call.pc = "getCharacteristic" ->
                  /\ IsNone(found)
                  /\ resolved => Get(call.server) \in gattConnected
                  /\ IF resolved
                       THEN /\ characteristic' = call.server
                            /\ isConnected' = TRUE
                            /\ linked' = TRUE
                            /\ calls' = Without(calls, k)
                            /\ lastCall' = Returned("connect", 0)
                       ELSE /\ connectThrows(k, "NetworkError")
                            /\ UNCHANGED << characteristic, linked >>
                  /\ UNCHANGED << device, gattConnected >>)

\* disconnect(): it has no await.
disconnect ==
  printerOnly(
    /\ IF IsSome(device) /\ Get(device).gatt
         THEN /\ gattConnected' = gattConnected \ {Get(device).id}
              /\ device' = None
              /\ characteristic' = None
              /\ isConnected' = FALSE
         ELSE UNCHANGED << device, characteristic, isConnected, gattConnected >>
    /\ linked' = FALSE
    /\ lastCall' = Returned("disconnect", 0)
    /\ UNCHANGED calls)

\* sendData(data) up to its first await: the first writeValue is under way
\* when there is a byte to write.
sendData(op, data) ==
  IF IsNone(characteristic)
    THEN /\ lastCall' = Threw(op, "Printer belum terhubung", 0)
         /\ UNCHANGED calls
    ELSE LET encoded == encode(data)
         IN  IF 0 < Len(encoded)
               THEN /\ calls' = Append(calls, [op |-> op, pc |-> "writeValue",
                                               encoded |-> encoded, i |-> 0,
                                               server |-> characteristic,
                                               started |-> 1, chunks |-> << >>])
                    /\ UNCHANGED lastCall
               ELSE /\ lastCall' = Returned(op, 0)
                    /\ UNCHANGED calls

NotConnected == "Printer belum terhubung. Silakan hubungkan printer terlebih dahulu."

\* printReceipt(receiptData) up to the first await of sendData.
printReceipt(receiptData) ==
  /\ Len(calls) < MaxCalls
  /\ printerOnly(
       /\ IF ~getConnectionStatus
            THEN /\ lastCall' = Threw("printReceipt", NotConnected, 0)
                 /\ UNCHANGED calls
            ELSE sendData("printReceipt", ReceiptText(receiptData))
       /\ UNCHANGED << device, characteristic, isConnected, gattConnected, linked >>)

\* testPrint() up to the first await of sendData.
testPrint(now) ==
  /\ Len(calls) < MaxCalls
  /\ printerOnly(
       /\ IF ~getConnectionStatus
            THEN /\ lastCall' = Threw("testPrint", "Printer belum terhubung", 0)
                 /\ UNCHANGED calls
            ELSE sendData("testPrint", TestText(now))
       /\ UNCHANGED << device, characteristic, isConnected, gattConnected, linked >>)

\* sendData called on its own.
callSendData(data) ==
  /\ Len(calls) < MaxCalls
  /\ printerOnly(
       /\ sendData("sendData", data)
       /\ UNCHANGED << device, characteristic, isConnected, gattConnected, linked >>)

RECURSIVE Concat(_)
Concat(chunks) == IF chunks = << >> THEN << >> ELSE Head(chunks) \o Concat(Tail(chunks))

\* sendData from one await to the next, or to its end: the writeValue under
\* way is resolved (the chunk is written) or rejected, or the 10 ms timeout
\* fires and the loop goes on with the characteristic of that moment.
sendResumes(k, resolved) ==
  /\ k \in 1..Len(calls)
  /\ calls[k].op \in SendOps
  /\ LET call == calls[k]
         next == call.i + chunkSize
     IN  printerOnly(
           /\ CASE call.pc = "writeValue" ->
                     /\ resolved => Get(call.server) \in gattConnected
                     /\ IF resolved
                          THEN /\ calls' = [calls EXCEPT
                                              ![k].pc = "setTimeout",
                                              ![k].chunks = Append(@, ChunkAt(call.encoded,
                                                                              call.i))]
                               /\ UNCHANGED lastCall
                          ELSE /\ calls' = Without(calls, k)
                               /\ lastCall' = Threw(call.op, "NetworkError",
                                                    Len(Concat(call.chunks)))
                [] call.pc = "setTimeout" ->
                     /\ resolved
                     /\ IF next < Len(call.encoded)
                          THEN IF IsNone(characteristic)
                                 THEN /\ calls' = Without(calls, k)
                                      /\ lastCall' = Threw(call.op, "TypeError",
                                                           Len(Concat(call.chunks)))
                                 ELSE /\ calls' = [calls EXCEPT ![k].pc = "writeValue",
                                                                ![k].i = next,
                                                                ![k].server = characteristic,
                                                                ![k].started = @ + 1]
                                      /\ UNCHANGED lastCall
                          ELSE /\ calls' = Without(calls, k)
                               /\ lastCall' = Returned(call.op, Len(Concat(call.chunks)))
           /\ UNCHANGED << device, characteristic, isConnected, gattConnected, linked >>)

\* justifyLine called on its own, with the default maxLength.
callJustifyLine(left, right) ==
  /\ justified' = Some([left |-> left, right |-> right,
                        line |-> justifyLine(left, right, LineWidth)])
  /\ toast' = None
  /\ UNCHANGED << homeVars, savedCart, crashed, cashierVars, lastCart, transactions,
                  paymentVars, salesVars, voidVars, adminVars, reportsVars, loginVars,
                  printVars, printerVars >>

PrinterFresh ==
  /\ device = None /\ characteristic = None /\ isConnected = FALSE
  /\ gattConnected = {} /\ calls = << >> /\ lastCall = None /\ linked = FALSE
  /\ justified = None

\* ------------------------------------------------ the Cashier on its own
InitForms ==
  /\ transactionType = "bayar_langsung" /\ paymentMethod = "cash" /\ isProcessing = FALSE
  /\ cashReceived = << >> /\ cashChange = 0 /\ customerName = << >>
  /\ showReceipt = FALSE /\ transactionData = None /\ payPending = None
  /\ openBills = << >> /\ salesLoading = FALSE
  /\ paidTransactions = << >> /\ salesShowReceipt = FALSE /\ selectedTransaction = None
  /\ printed = None
  /\ voidPc = "idle" /\ voidBillId = None /\ confirmed = None
  /\ toast = None
  /\ productsTable = {[id |-> 1, name |-> <<"K", "o", "p", "i">>, price |-> 15000,
                       category |-> <<"T", "e", "h">>]}
  /\ formData = EmptyForm /\ editingProduct = None
  /\ isModalOpen = FALSE /\ modalClosing = FALSE /\ isSubmitting = FALSE
  /\ confirmDialog = None /\ notification = None /\ productPending = None
  /\ ReportsFresh
  /\ LoginFresh
  /\ PrinterFresh

InitRest == transactions = << >> /\ reportsPending = FALSE /\ InitForms

InitTill ==
  /\ savedCart = Some(Stringify(<< >>))
  /\ crashed = FALSE
  /\ cart = << >>
  /\ selectedProduct = None /\ modalVariant = "Ice" /\ modalAddOns = << >>
  /\ modalQuantity = 1 /\ editingCartIndex = None
  /\ isProductModalOpen = FALSE /\ isCartModalOpen = FALSE
  /\ timers = {} /\ openPending = None /\ editPending = None
  /\ lastCart = << >>

InitShop ==
  /\ activeNav = "cashier" /\ showPayment = FALSE /\ paymentData = None
  /\ InitTill
  /\ InitRest

InitCashier == InitShop /\ user = "kasir" /\ userRole = "kasir" /\ SignedIn

NextCashier ==
  \/ \E p \in Products : openProductModal(p)
  \/ \E ok \in BOOLEAN : openProductModalFetched(ok)
  \/ \E v \in Variants : setModalVariant(v)
  \/ \E i \in 1..1 : toggleAddOn(i)
  \/ decQuantity
  \/ incQuantity
  \/ closeProductModal
  \/ timerCloseProduct
  \/ addToCart
  \/ openCartModal
  \/ closeCartModal
  \/ timerCloseCart
  \/ \E i \in 1..MaxCart : removeFromCart(i)
  \/ \E i \in 1..MaxCart : startEditCartItem(i)
  \/ \E ok \in BOOLEAN : startEditFetched(ok)
  \/ timerEditCloseCart
  \/ timerEditOpenProduct
  \/ goToPayment
  \/ handleBackFromPayment
  \/ \E id \in {"cashier", "sales"} : navigate(id)

SpecCashier == InitCashier /\ [][NextCashier]_vars

\* ------------------------------------------- the Products component
Roles == {"admin", "kasir"}
TypedProductNames == {<<"k", "o", "p", "i">>, <<"t", "e", "h", " ">>}
TypedPrices == {<<"0">>, <<"R", "p", "5", "0", "0", "0">>}
TypedCategories == {<<"t", "e", "h">>}

InitProducts == InitShop /\ user \in Roles /\ userRole \in Roles /\ SignedIn

NextProducts ==
  \/ \E id \in {"cashier", "sales", "reports", "products"} : navigate(id)
  \/ openAddModal
  \/ \E product \in productsTable : openEditModal(product)
  \/ \E value \in TypedProductNames : setFormData("name", value)
  \/ \E value \in TypedPrices : setFormData("price", DigitsOnly(value))
  \/ \E value \in TypedCategories : setFormData("category", value)
  \/ closeModal
  \/ closeModalTimer
  \/ handleSubmit
  \/ \E ok \in BOOLEAN : handleSubmitDone(ok)
  \/ \E id \in 1..(MaxProducts + 1) : handleDelete(id)
  \/ \E product \in productsTable : handleRemoveCategory(product.category)
  \/ closeConfirmDialog
  \/ onConfirm
  \/ \E ok \in BOOLEAN : onConfirmDone(ok)

SpecProducts == InitProducts /\ [][NextProducts]_vars

\* ------------------------------------------- payments and open bills
\* What the cashier types into the cash field and the name field.
TypedCash == {<<"R", "p", " ", "5">>}
TypedNames == {<<" ">>, <<" ", "A", " ">>}
QuickCash == {50000}
QuickAmounts == IF IsSome(paymentData) THEN QuickCash \cup {grandTotal} ELSE {}

InitPay == InitCashier

\* The cashier rings up orders of at most MaxPayCart items while the table
\* has room for another transaction.
TakesOrder == Len(transactions) < MaxTxns /\ Len(cart) < MaxPayCart

\* A handler that was resumed by its promise runs before the next event.
Running == voidPc /= "resolved"
\* The cashier fills in forms and starts a request only when no request is
\* under way, and after leaving a Payment that still waits for its answer
\* waits for that answer.
Quiet == voidPc = "idle" /\ IsNone(payPending)
Attended == Running /\ (IF IsSome(payPending) THEN Get(payPending).live ELSE TRUE)

NextPay ==
  \/ Quiet /\ TakesOrder /\ \E p \in Products : openProductModal(p)
  \/ Running /\ \E ok \in BOOLEAN : openProductModalFetched(ok)
  \/ Quiet /\ addToCart
  \/ Running /\ timerCloseProduct
  \/ Attended /\ Len(transactions) < MaxTxns /\ goToPayment
  \/ Attended /\ handleBackFromPayment
  \/ Attended /\ \E id \in {"cashier", "sales"} : navigate(id)
  \/ Quiet /\ \E type \in {"bayar_langsung", "open_bill"} : setTransactionType(type)
  \/ Quiet /\ \E method \in PaymentMethods : setPaymentMethod(method)
  \/ Quiet /\ \E value \in TypedCash : handleCashReceivedChange(value)
  \/ Quiet /\ \E amount \in QuickAmounts : setQuickCash(amount)
  \/ Quiet /\ \E value \in TypedNames : setCustomerName(value)
  \/ Quiet /\ handleProcessPayment
  \/ Running /\ \E ok \in BOOLEAN : servePayment(ok)
  \/ Running /\ handleProcessPaymentDone
  \/ Attended /\ handleReceiptClose
  \/ Running /\ \E ok \in BOOLEAN : fetchAllData(ok)
  \/ Attended /\ \E k \in 1..MaxTxns : handlePayOpenBill(k)
  \/ Quiet /\ \E k \in 1..MaxTxns : handleVoidBill(k)
  \/ \E answer \in BOOLEAN : resolveConfirm(answer)
  \/ handleVoidBillResumes
  \/ Running /\ \E ok \in BOOLEAN : handleVoidBillDone(ok)

SpecPay == InitPay /\ [][NextPay]_vars

\* -------------------------------------------- the first order of a day
\* The Cashier with all its operations, and the payment of the first cart
\* that is taken to the payment screen.
FirstOrder == transactions = << >> /\ IsNone(payPending)

NextOrder ==
  \/ FirstOrder /\ NextCashier
  \/ IsNone(payPending) /\ \E method \in PaymentMethods : setPaymentMethod(method)
  \/ handleProcessPayment
  \/ \E ok \in BOOLEAN : servePayment(ok)
  \/ handleProcessPaymentDone
  \/ handleReceiptClose

SpecOrder == InitCashier /\ [][NextOrder]_vars

\* ------------------------------------------------- the Reports page
MaxRows == 2

\* Rows of the products table that orders were taken from.
ReportProducts ==
  << [id |-> "p1", name |-> "Kopi", price |-> 15000],
     [id |-> "p2", name |-> "Roti", price |-> 20000],
     [id |-> "p3", name |-> "Teh", price |-> 10000],
     [id |-> "p4", name |-> "Susu", price |-> 12000],
     [id |-> "p5", name |-> "Mie", price |-> 18000],
     [id |-> "p6", name |-> "Nasi", price |-> 25000] >>

\* A stored item: quantity times product k, without variant and add-ons.
OrderedItem(k, quantity) ==
  [product_id |-> ReportProducts[k].id, product_name |-> ReportProducts[k].name,
   price |-> ReportProducts[k].price, quantity |-> quantity,
   variant |-> None, addOns |-> << >>,
   totalPrice |-> ReportProducts[k].price * quantity]

\* The stored items of a cart, and of a cart whose second slot was empty.
Orders(quantity) ==
  LET full == { [i \in 1..(hi - lo + 1) |-> OrderedItem(lo + i - 1, quantity)] :
                  lo \in 1..Len(ReportProducts), hi \in 1..Len(ReportProducts) }
  IN  (full \ {<< >>})
        \cup { << items[1], Null >> \o Tail(items) : items \in {o \in full : Len(o) >= 2} }

\* The total the Cashier computed for the cart (an empty slot adds nothing).
OrderTotal(items) ==
  SumSeq([i \in 1..Len(items) |-> IF items[i] = Null THEN 0 ELSE items[i].totalPrice])

\* A row as Payment and Sales leave it: paid at once, an open bill, or an
\* open bill that was voided.
StoredRow(status, items) ==
  [items |-> items, subtotal |-> OrderTotal(items), total |-> OrderTotal(items),
   payment_status |-> status,
   payment_method |-> IF status = "paid" THEN Some("qris") ELSE None,
   cash_received |-> None, cash_change |-> None,
   customer_name |-> IF status = "paid" THEN None ELSE Some(<<"A">>),
   void_reason |-> IF status = "voided" THEN voidData.void_reason ELSE None,
   voided_at |-> IF status = "voided" THEN voidData.voided_at ELSE None]

Statuses == {"paid", "open_bill", "voided"}

\* Tables of n rows; the items of row k have quantity k.
RECURSIVE TablesOf(_)
TablesOf(n) ==
  IF n = 0 THEN { << >> }
  ELSE { Append(rows, InsertedRow(rows, StoredRow(status, items))) :
           rows \in TablesOf(n - 1), status \in Statuses, items \in Orders(n) }

StoredTables(most) == UNION { TablesOf(n) : n \in 0..most }

\* The admin has opened Reports: the effect of the mount has called
\* fetchTransactions.
InitReports ==
  /\ activeNav = "reports" /\ showPayment = FALSE /\ paymentData = None
  /\ InitTill
  /\ InitForms
  /\ user = "admin" /\ userRole = "admin"
  /\ SignedIn
  /\ transactions \in StoredTables(MaxRows)
  /\ reportsPending = TRUE

NextReports ==
  \/ \E range \in DateRanges : setDateRange(range)
  \/ \E ok \in BOOLEAN, since \in 0..MaxRows : fetchTransactionsDone(ok, since)

SpecReports == InitReports /\ [][NextReports]_vars

\* --------------------------------------------------- the Login page
\* What a PIN box is given: nothing, a letter, a 9, the admin's digit for
\* the box, or the digit behind a 9.
TypedPin(index) ==
  LET digit == (CHOOSE u \in Users : u.role = "admin").pin[index]
  IN  { << >>, <<"a">>, <<"9">>, << digit >>, <<"9", digit>> }

\* Nobody is logged in: App renders Login.
InitLogin ==
  /\ activeNav = "cashier" /\ showPayment = FALSE /\ paymentData = None
  /\ InitTill
  /\ InitRest
  /\ user = "" /\ userRole = ""
  /\ session = None /\ savedUser = None

NextLogin ==
  \/ \E index \in 1..PinBoxes : \E value \in TypedPin(index) : handlePinChange(index, value)
  \/ handleLoginSubmit
  \/ \E outcome \in LoginOutcomes : handleLoginAnswered(outcome)
  \/ onLogin

SpecLogin == InitLogin /\ [][NextLogin]_vars

\* ------------------------------------------------------- the receipts
\* Payments and open bills, and the receipts of Payment and of Sales.  A
\* receipt of Sales is opened while no payment and no void is under way, and
\* the first receipt that is printed is the last step.
NextReceipt ==
  \/ ~SalesReceiptShown /\ printed = None /\ NextPay
  \/ printed = None /\ \E opened \in BOOLEAN : handlePrint(opened)
  \/ Quiet /\ printed = None /\ \E k \in 1..MaxTxns : handleShowReceipt(paidTransactions, k)
  \/ Quiet /\ printed = None /\ \E k \in 1..MaxTxns : handleShowReceipt(openBills, k)
  \/ printed = None /\ handleCloseReceipt
  \/ printed = None /\ \E opened \in BOOLEAN : handlePrintReceipt(opened)

SpecReceipt == InitPay /\ [][NextReceipt]_vars

\* ------------------------------------------------- the PrinterService
\* The characters the texts are made of.
Glyphs == <<"a", "e-acute", " ", "euro", "1", "LF">>

\* The text of n characters that takes every step-th glyph in turn.
Text(n, step) == [j \in 1..n |-> Glyphs[((j * step) % Len(Glyphs)) + 1]]
Texts(most) == { Text(n, step) : n \in 0..most, step \in 1..2 }

\* A cash payment and an open bill, as the pages hand them to a print
\* service.
PrintJobs ==
  { [transactionNumber |-> <<"T", "R", "X", "-", "1">>, dateStr |-> <<"0", "4", "/", "1", "1", "/", "2", "0", "2", "6", ",", " ", "1", "0", ".", "1", "5">>,
     cashierName |-> <<"k", "a", "s", "i", "r">>,
     items |-> << [product_name |-> <<"K", "o", "p", "i">>, quantity |-> 2, variant |-> Some(<<"I", "c", "e">>),
                   addOns |-> Some(<< [name |-> <<"S", "u", "s", "u">>, price |-> 3000] >>),
                   totalPrice |-> 36000] >>,
     subtotal |-> 36000, total |-> 36000, paymentMethod |-> Some(<<"c", "a", "s", "h">>),
     cashReceived |-> Some(50000), cashChange |-> Some(14000),
     customerName |-> None, referenceNumber |-> None],
    [transactionNumber |-> <<"T", "R", "X", "-", "2">>, dateStr |-> <<"0", "4", "/", "1", "1", "/", "2", "0", "2", "6", ",", " ", "1", "0", ".", "2", "0">>,
     cashierName |-> <<"k", "a", "s", "i", "r">>,
     items |-> << [product_name |-> <<"R", "o", "t", "i">>, quantity |-> 1, variant |-> None,
                   addOns |-> None, totalPrice |-> 20000] >>,
     subtotal |-> 20000, total |-> 20000, paymentMethod |-> None,
     cashReceived |-> None, cashChange |-> None,
     customerName |-> Some(<<"B", "u", "d", "i">>), referenceNumber |-> None] }

Clock == { <<"4", "/", "1", "1", "/", "2", "0", "2", "6", ",", " ", "1", "0", ".", "1", "5", ".", "0", "0">> }

InitPrinter == InitCashier

Sending == \E k \in 1..Len(calls) : calls[k].op \in SendOps

\* The calls a client of the service makes, one print at a time.
NextService ==
  \/ \E platform \in Platforms : connect(platform)
  \/ \E k \in 1..MaxCalls, found \in {None} \cup {Some(d) : d \in Devices},
        resolved \in BOOLEAN : connectResumes(k, found, resolved)
  \/ disconnect
  \/ \E k \in 1..MaxCalls, resolved \in BOOLEAN : sendResumes(k, resolved)

NextPrinter ==
  \/ NextService
  \/ ~Sending /\ \E receiptData \in PrintJobs : printReceipt(receiptData)
  \/ ~Sending /\ \E now \in Clock : testPrint(now)

SpecPrinter == InitPrinter /\ [][NextPrinter]_vars

\* sendData with texts whose lengths lie around the chunk boundaries.
SentTexts == { Text(n, 1) : n \in { m \in 0..MaxData : m % chunkSize \in {0, 1, chunkSize - 1} } }

NextSendData ==
  \/ NextService
  \/ \E data \in SentTexts : callSendData(data)

SpecSendData == InitPrinter /\ [][NextSendData]_vars

NextJustify ==
  justified = None /\ \E left \in Texts(MaxText), right \in Texts(MaxText) : callJustifyLine(left, right)

SpecJustify == InitPrinter /\ [][NextJustify]_vars

\* ------------------------------------------------------------- claims
\* What C7 asks of one slot of the cart.
WellFormedItem(e) ==
  /\ IsItem(e)
  /\ e.quantity >= 1
  /\ e.totalPrice = (e.product.price + SumSeq([k \in 1..Len(e.addOns) |-> e.addOns[k].price])) * e.quantity
  /\ (IsNone(e.variant) <=> ~e.product.has_variants)

\* C7: after any sequence of Cashier add, edit and remove operations every
\* cart item has quantity >= 1, totalPrice = (product.price + the prices of
\* its selected add-ons) * quantity, a null variant exactly when the product
\* has no variants, and grandTotal is the sum of the items' totalPrice.
C7_CartItemsWellFormed ==
  CashierShown =>
    /\ \A i \in 1..Len(cart) : WellFormedItem(cart[i])
    /\ grandTotalOf(cart) = SumSeq([i \in 1..Len(cart) |-> cart[i].totalPrice])

\* A Cashier comes on screen in this step.
CashierMounts ==
  /\ ~crashed
  /\ ~(activeNav = "cashier" /\ ~showPayment)
  /\ activeNav' = "cashier" /\ ~showPayment'

\* C8: the cart is persisted: while the Cashier is on screen localStorage
\* holds the JSON of the current cart, and a Cashier that is mounted again
\* starts with exactly the cart the previous Cashier had.
C8_CartPersisted ==
  [][ /\ (CashierShown' => savedCart' = Some(Stringify(cart')))
      /\ (CashierMounts => cart' = lastCart) ]_vars

\* ------------------------------------------------- claims on payments
ValidationError == Some([type |-> "error", title |-> "Validasi Gagal"])
PaymentError == Some([type |-> "error", title |-> "Gagal Memproses Pembayaran"])
PaymentSuccess == Some([type |-> "success", title |-> "Pembayaran Berhasil!"])

\* handleProcessPayment sends its request in this step.
RequestSent == IsNone(payPending) /\ IsSome(payPending')
\* The database answers the request in this step.
RequestServed ==
  /\ IsSome(payPending) /\ IsNone(Get(payPending).answer)
  /\ IsSome(payPending') /\ IsSome(Get(payPending').answer)

\* C1: handleProcessPayment with type bayar_langsung and method cash sends a
\* write (insert or update) only if cashReceived is non-empty and its value
\* is at least grandTotal; otherwise it raises the validation error, writes
\* nothing and leaves isProcessing, transactionData and showReceipt as they
\* were.
C1_CashValidated ==
  [][ (handleProcessPayment /\ transactionType = "bayar_langsung" /\ paymentMethod = "cash")
        => IF cashReceived /= << >> /\ parseFloat(cashReceived) >= grandTotal
             THEN TRUE
             ELSE /\ toast' = ValidationError
                  /\ UNCHANGED << payPending, transactions, isProcessing, transactionData,
                                  showReceipt >> ]_vars

C1_Witness ==
  /\ FormShown
  /\ toast = ValidationError
  /\ transactionType = "bayar_langsung" /\ paymentMethod = "cash"
  /\ cashReceived = <<"5">>
  /\ IsNone(payPending) /\ ~isProcessing

NoOuterSpace(str) == str /= << >> /\ Head(str) /= " " /\ str[Len(str)] /= " "

OpenBillShape(r) ==
  /\ r.payment_status = "open_bill"
  /\ IsNone(r.payment_method) /\ IsNone(r.cash_received) /\ IsNone(r.cash_change)
  /\ IsSome(r.customer_name) /\ NoOuterSpace(Get(r.customer_name))

DirectShape(r) ==
  /\ r.payment_status = "paid"
  /\ IsSome(r.payment_method) /\ Get(r.payment_method) \in {"cash", "qris", "debit"}
  /\ IsNone(r.customer_name)
  /\ IsSome(r.cash_received) <=> r.payment_method = Some("cash")
  /\ IsSome(r.cash_change) <=> r.payment_method = Some("cash")

\* A row is inserted in this step.
Inserted == Len(transactions') = Len(transactions) + 1

\* C2: every transaction Payment inserts is an open bill (payment_status
\* open_bill, no payment_method, cash_received or cash_change, and a
\* non-empty trimmed customer_name) or a direct payment (payment_status paid,
\* payment_method cash, qris or debit, no customer_name, and cash_received
\* and cash_change present exactly when the method is cash).
C2_InsertedShapes ==
  [][ Inserted =>
        LET r == transactions'[Len(transactions')]
        IN OpenBillShape(r) \/ DirectShape(r) ]_vars

C2_Witness ==
  /\ Len(transactions) = 2
  /\ OpenBillShape(transactions[1]) /\ transactions[1].customer_name = Some(<<"A">>)
  /\ DirectShape(transactions[2]) /\ transactions[2].payment_method = Some("cash")
  /\ Get(transactions[2].cash_change) > 0

IsStoredItem(e) == "totalPrice" \in DOMAIN e

\* The stored item is the cart item.
StoredAs(e, item) ==
  /\ IsItem(item) /\ IsStoredItem(e)
  /\ e.product_id = item.product.id /\ e.product_name = item.product.name
  /\ e.price = item.product.price /\ e.quantity = item.quantity
  /\ e.variant = item.variant /\ e.addOns = item.addOns
  /\ e.totalPrice = item.totalPrice

\* C3: every transaction created from the cashier cart is stored with
\* subtotal = total = the cart's grandTotal = the sum of totalPrice over its
\* stored items, and its stored items are the items of the cart passed to
\* the payment screen, in the same number and order.
C3_StoredAsCart ==
  [][ /\ (RequestSent /\ Get(payPending').kind = "insert") =>
           LET r == Get(payPending').row
               c == Get(paymentData).cart
           IN /\ r.subtotal = r.total /\ r.total = grandTotalOf(c)
              /\ Len(r.items) = Len(c)
              /\ \A i \in 1..Len(c) : StoredAs(r.items[i], c[i])
              /\ r.total = SumSeq([i \in 1..Len(c) |-> r.items[i].totalPrice])
      /\ (RequestServed /\ Get(payPending).kind = "insert" /\ Inserted) =>
           LET r == transactions'[Len(transactions')]
               sent == Get(payPending).row
           IN /\ r.items = sent.items
              /\ r.subtotal = sent.subtotal /\ r.total = sent.total ]_vars

\* C4: paying an existing open bill updates that one transaction in place:
\* payment_status becomes paid and payment_method, cash_received and
\* cash_change are written; no transaction is inserted, and the
\* transaction's items, total and customer_name and every other transaction
\* stay as they were.
C4_PaidInPlace ==
  [][ /\ (RequestSent /\ IsSome(existingTransactionId)) =>
           /\ Get(payPending').kind = "update"
           /\ Get(payPending').id = Get(existingTransactionId)
      /\ (RequestServed /\ Get(payPending).kind = "update") =>
           LET id == Get(payPending).id
               written == Get(payPending).data
           IN /\ Len(transactions') = Len(transactions)
              /\ \A i \in 1..Len(transactions) :
                   i /= id => transactions'[i] = transactions[i]
              /\ \/ transactions' = transactions /\ IsNone(Get(Get(payPending').answer).data)
                 \/ /\ transactions'[id].payment_status = "paid"
                    /\ transactions'[id].payment_method = written.payment_method
                    /\ IsSome(written.payment_method)
                    /\ transactions'[id].cash_received = written.cash_received
                    /\ transactions'[id].cash_change = written.cash_change
                    /\ transactions'[id].items = transactions[id].items
                    /\ transactions'[id].total = transactions[id].total
                    /\ transactions'[id].subtotal = transactions[id].subtotal
                    /\ transactions'[id].customer_name = transactions[id].customer_name
                    /\ transactions'[id].id = id ]_vars

C4_Witness ==
  /\ Len(transactions) = 2
  /\ transactions[1].payment_status = "open_bill"
  /\ transactions[2].payment_status = "paid"
  /\ transactions[2].customer_name = Some(<<"A">>)
  /\ transactions[2].payment_method = Some("cash")
  /\ ReceiptShown /\ Get(transactionData).id = 2

\* C5: voiding cannot be undone: once a transaction's payment_status is
\* voided no operation changes it, the payment confirmed on a Payment screen
\* that was opened for the bill before it was voided included.
C5_VoidedIsFinal ==
  [][ \A i \in 1..Len(transactions) :
        transactions[i].payment_status = "voided" =>
          transactions'[i].payment_status = "voided" ]_vars

\* C6: handleVoidBill changes a transaction only after the confirmation was
\* resolved with true: when the cashier cancels (button or backdrop) no
\* update is sent, no toast is raised and the lists are not fetched again;
\* on confirmation exactly the transaction of the given id becomes voided,
\* with void_reason and voided_at.
C6_VoidOnlyConfirmed ==
  [][ /\ (DialogShown /\ confirmed' = Some(FALSE)) =>
           /\ transactions' = transactions /\ toast' = None
           /\ UNCHANGED << openBills, salesLoading >>
      /\ (voidPc = "resolved" /\ confirmed = Some(FALSE)) =>
           /\ voidPc' = "idle"
           /\ transactions' = transactions /\ toast' = None
           /\ UNCHANGED << openBills, salesLoading >>
      /\ (voidPc /= "updating" /\ voidPc' = "updating") => confirmed = Some(TRUE)
      /\ \A i \in 1..Len(transactions) :
           (transactions[i].payment_status /= "voided"
              /\ transactions'[i].payment_status = "voided") =>
             /\ voidPc = "updating" /\ confirmed = Some(TRUE)
             /\ voidBillId = Some(transactions[i].id)
             /\ IsSome(transactions'[i].void_reason) /\ IsSome(transactions'[i].voided_at)
             /\ Len(transactions') = Len(transactions)
             /\ \A j \in 1..Len(transactions) : j /= i => transactions'[j] = transactions[j]
             /\ \A c \in DOMAIN transactions[i] \ {"payment_status", "void_reason", "voided_at"} :
                  transactions'[i][c] = transactions[i][c] ]_vars

C6_Witness ==
  /\ Len(transactions) = 2
  /\ transactions[1].payment_status = "open_bill"
  /\ transactions[2].payment_status = "voided"
  /\ transactions[2].void_reason = Some("Dibatalkan oleh kasir")
  /\ toast = Some([type |-> "success", title |-> "Open Bill Dibatalkan"])

\* C9: onPaymentSuccess (the saved cart removed, the payment screen left) is
\* called only when a write has succeeded and its receipt is closed; when the
\* insert or update fails no receipt is shown, transactionData stays null,
\* the saved cart and the payment screen stay and an error toast is raised.
C9_SuccessAfterWrite ==
  [][ /\ (toast' = PaymentSuccess \/ (IsSome(savedCart) /\ IsNone(savedCart'))) =>
           /\ ReceiptShown /\ ~showReceipt' /\ ~showPayment'
           /\ Get(transactionData).id \in 1..Len(transactions)
      /\ (IsSome(payPending) /\ IsSome(Get(payPending).answer)
            /\ IsNone(Get(Get(payPending).answer).data) /\ IsNone(payPending')) =>
           /\ ~showReceipt' /\ transactionData' = None
           /\ savedCart' = savedCart
           /\ showPayment' = showPayment /\ paymentData' = paymentData
           /\ toast' = PaymentError ]_vars

C9_Witness ==
  /\ FormShown /\ toast = PaymentError
  /\ IsNone(payPending) /\ ~isProcessing
  /\ ~showReceipt /\ IsNone(transactionData)
  /\ IsSome(savedCart) /\ Parse(Get(savedCart)) = Get(paymentData).cart

\* ------------------------------------------------- claims on Products
\* Home shows the Reports and Products pages and their menu entries to an
\* admin only.
AdminOnlyShown ==
  \A id \in {"reports", "products"} :
    (id \in MenuEntries(user) \/ (activeNav = id /\ PageShown(activeNav, user) /= "none"))
      => user = "admin"

\* C10: product management is for admins: with a userRole other than admin
\* handleSubmit and handleDelete send no write to the database and open no
\* delete confirmation, and Home shows the Reports and Products pages and
\* their menu entries only when user.role is admin.
C10_AdminOnly ==
  [][ /\ (userRole /= "admin" /\ (handleSubmit \/ \E id \in 1..(MaxProducts + 1) : handleDelete(id)))
           => UNCHANGED << productsTable, productPending, confirmDialog, isSubmitting >>
      /\ AdminOnlyShown /\ AdminOnlyShown' ]_vars

C10_Witness ==
  /\ userRole = "kasir" /\ user = "kasir"
  /\ isModalOpen /\ formData.name /= << >> /\ formData.category /= << >>
  /\ notification = Warning("Hanya admin yang dapat mengelola produk")
  /\ IsNone(productPending) /\ ~isSubmitting
  /\ "products" \notin MenuEntries(user)

\* -------------------------------------------------- claims on Reports
StatusCount(data, status) ==
  Cardinality({i \in 1..Len(data) : data[i].payment_status = status})

SalesOf(data) ==
  SumSeq([i \in 1..Len(data) |-> IF data[i].payment_status = "paid" THEN data[i].total ELSE 0])

\* C11: the overview of Reports is computed from the paid transactions of
\* the fetched rows only: totalSales is the sum of their total,
\* totalTransactions their number, averageTransaction the quotient of the two
\* (0 when there is none), and openBills the number of open bills; open bills
\* and voided transactions add to no sales figure.
C11_StatsOverPaid ==
  /\ overviewStats.totalSales = SalesOf(reportData)
  /\ overviewStats.totalTransactions = StatusCount(reportData, "paid")
  /\ IF StatusCount(reportData, "paid") = 0
       THEN overviewStats.averageTransaction.num = 0
       ELSE overviewStats.averageTransaction.num * StatusCount(reportData, "paid")
              = SalesOf(reportData) * overviewStats.averageTransaction.den
  /\ overviewStats.averageTransaction.den > 0
  /\ overviewStats.openBills = StatusCount(reportData, "open_bill")

\* Fetched rows with a paid transaction and one that is not paid.
C11_Witness ==
  /\ ~reportsLoading
  /\ overviewStats.totalTransactions = 1
  /\ overviewStats.totalSales > 0
  /\ \E i \in 1..Len(reportData) : reportData[i].payment_status /= "paid"

\* The names, quantities and revenues of the items of the paid rows.
SoldNames(data) ==
  { data[i].items[k].product_name :
      <<i, k>> \in { <<i, k>> \in (1..Len(data)) \X (1..BestSellersKept + 2) :
                       /\ data[i].payment_status = "paid"
                       /\ k <= Len(data[i].items)
                       /\ data[i].items[k] /= Null } }

SoldOf(data, name, column) ==
  SumSeq([i \in 1..Len(data) |->
            IF data[i].payment_status = "paid"
              THEN SumSeq([k \in 1..Len(data[i].items) |->
                             IF data[i].items[k] /= Null /\ data[i].items[k].product_name = name
                               THEN data[i].items[k][column] ELSE 0])
              ELSE 0])

BestSellersRight ==
  /\ Len(bestSellers) <= 5
  /\ \A k \in 1..Len(bestSellers) :
       /\ bestSellers[k].product_name \in SoldNames(reportData)
       /\ bestSellers[k].total_quantity
            = SoldOf(reportData, bestSellers[k].product_name, "quantity")
       /\ bestSellers[k].total_revenue
            = SoldOf(reportData, bestSellers[k].product_name, "totalPrice")
       /\ \A j \in 1..Len(bestSellers) :
            /\ j /= k => bestSellers[j].product_name /= bestSellers[k].product_name
            /\ j < k => bestSellers[j].total_quantity >= bestSellers[k].total_quantity
       /\ \A name \in SoldNames(reportData) :
            (\A j \in 1..Len(bestSellers) : bestSellers[j].product_name /= name)
              => SoldOf(reportData, name, "quantity") <= bestSellers[k].total_quantity

\* C16: whenever fetched rows arrive, calculateBestSellers gives the page at
\* most 5 entries, one per product name, counted from the paid transactions
\* only, each with the product's summed quantity and summed totalPrice, in
\* order of non-increasing quantity, and no product left out sold more than
\* one that is listed.
C16_BestSellers ==
  [][ (\E since \in 0..MaxRows : fetchTransactionsDone(TRUE, since)) => BestSellersRight' ]_vars

\* ---------------------------------------------------- claims on Login
QuerySent == IsNone(loginPending) /\ IsSome(loginPending')

LoginRefused == IsSome(loginPending) /\ IsNone(loginPending') /\ ~success'

\* C12: handleSubmit queries the users table only for a PIN of exactly 6
\* digits; onLogin is called only with a user row whose pin is the PIN that
\* was entered, and once; a wrong PIN or a failed query is refused, and a
\* refusal calls no onLogin, empties the six boxes, sets an error message and
\* leaves isLoading false.
C12_LoginByPin ==
  [][ /\ QuerySent =>
           /\ Len(join(pin)) = 6 /\ IsDigits(join(pin))
           /\ Get(loginPending').pin = join(pin)
      /\ session' /= session =>
           /\ IsNone(session) /\ IsSome(session')
           /\ \E u \in Users : /\ u.pin = join(pin)
                               /\ Get(session') = [id |-> u.id, username |-> u.username,
                                                   role |-> u.role]
           /\ success /\ loginTimers' = << >>
      /\ Len(loginTimers') <= 1
      /\ (/\ IsSome(loginPending) /\ IsNone(loginPending')
          /\ \A u \in Users : u.pin /= Get(loginPending).pin) => LoginRefused
      /\ LoginRefused =>
           /\ session' = session /\ loginTimers' = loginTimers /\ loginTimers = << >>
           /\ pin' = [k \in 1..6 |-> << >>]
           /\ loginError' /= ""
           /\ loginLoading' = FALSE
    ]_vars

\* The user of the entered PIN is logged in.
C12_Witness ==
  /\ IsSome(session)
  /\ success
  /\ join(pin) = <<"1", "2", "3", "4", "5", "6">>
  /\ Get(session).role = "admin"

\* ------------------------------------------------- claims on receipts
Shows(receipt, text) == \E k \in 1..Len(receipt) : receipt[k].text = text

\* The receipt of an unpaid open bill has the indicator and no payment
\* section; the receipt of a transaction with a payment method has the
\* payment section and no indicator.
ReceiptRight(row, receipt) ==
  /\ (IsNone(row.payment_method) /\ TruthyChars(row.customer_name))
       => /\ Shows(receipt, "** OPEN BILL **") /\ Shows(receipt, "Belum dibayar")
          /\ ~Shows(receipt, "PEMBAYARAN")
  /\ IsSome(row.payment_method)
       => /\ Shows(receipt, "PEMBAYARAN")
          /\ ~Shows(receipt, "** OPEN BILL **") /\ ~Shows(receipt, "Belum dibayar")

\* C13: the receipt on the screen of Payment, the receipt on the screen of
\* Sales and the receipt handed to the printer each show '** OPEN BILL **' /
\* 'Belum dibayar' and no 'PEMBAYARAN' for an unpaid open bill, and
\* 'PEMBAYARAN' without the indicator for a transaction with a payment
\* method.
C13_ReceiptSections ==
  /\ ReceiptShown
       => ReceiptRight(Get(transactionData), Receipt(PaymentReceiptProps(Get(transactionData))))
  /\ SalesReceiptShown
       => ReceiptRight(Get(selectedTransaction),
                       Receipt(SalesReceiptProps(Get(selectedTransaction))))
  /\ IsSome(printed) => ReceiptRight(Get(printed).transaction, Get(printed).receipt)

\* ------------------------------------------------ claims on paid bills
\* C15: once a transaction is paid, no step changes its payment_status,
\* payment_method, cash_received or cash_change.
C15_PaidOnce ==
  [][ \A i \in 1..Len(transactions) :
        transactions[i].payment_status = "paid"
          => /\ i <= Len(transactions')
             /\ \A c \in {"payment_status", "payment_method", "cash_received", "cash_change"} :
                  transactions'[i][c] = transactions[i][c]
    ]_vars

\* --------------------------------------------- claims on PrinterService
\* The call refused: it threw, and it started no write.
PrintRefused ==
  /\ lastCall' /= None
  /\ Get(lastCall').op \in {"printReceipt", "testPrint"}
  /\ Get(lastCall').result = "threw"
  /\ Get(lastCall').written = 0
  /\ calls' = calls

\* A connect() throws in this step.
ConnectThrew ==
  \/ \E platform \in Platforms \ {"supported"} : connect(platform)
  \/ \E k \in 1..MaxCalls, found \in {None} \cup {Some(d) : d \in Devices},
        resolved \in BOOLEAN :
       /\ connectResumes(k, found, resolved)
       /\ Len(calls') < Len(calls)
       /\ Get(lastCall').result = "threw"

PrintsRefused ==
  /\ \A receiptData \in PrintJobs :
       (~getConnectionStatus /\ printReceipt(receiptData)) => PrintRefused
  /\ \A now \in Clock : (~getConnectionStatus /\ testPrint(now)) => PrintRefused

\* C14: printReceipt and testPrint, called while getConnectionStatus() is
\* false, throw and write nothing to the printer; getConnectionStatus() is
\* true only when a connect() has returned true and disconnect() has not been
\* called since; and it is false right after a connect() that threw.
C14_ConnectionStatus ==
  [][ /\ PrintsRefused
      /\ getConnectionStatus' => linked'
      /\ ConnectThrew => ~getConnectionStatus' ]_vars

\* The chunks a sendData call has written so far: each of 1 to chunkSize
\* bytes, together the first bytes of the encoded data in their order, up to
\* the chunk at offset i; and at most one writeValue that has not completed.
ChunksRight(call) ==
  /\ \A c \in 1..Len(call.chunks) : Len(call.chunks[c]) \in 1..chunkSize
  /\ Concat(call.chunks) = SubSeq(call.encoded, 1, Len(Concat(call.chunks)))
  /\ call.started = Len(call.chunks) + (IF call.pc = "writeValue" THEN 1 ELSE 0)
  /\ Len(Concat(call.chunks)) =
       IF call.pc = "writeValue" THEN call.i
       ELSE IF call.i + chunkSize < Len(call.encoded) THEN call.i + chunkSize
       ELSE Len(call.encoded)

\* Call k returns in this step.
SendReturns(k) ==
  /\ sendResumes(k, TRUE)
  /\ Len(calls') < Len(calls)
  /\ Get(lastCall').result = "returned"

\* C17: sendData writes the encoded data in chunks of at most 20 bytes, in
\* order, and starts a write only when the one before has completed; when it
\* returns, the chunks it has written are together the encoded data; called
\* with no characteristic it throws 'Printer belum terhubung' and writes
\* nothing.
C17_SendDataChunks ==
  [][ /\ \A k \in 1..Len(calls') : calls'[k].op \in SendOps => ChunksRight(calls'[k])
      /\ \A k \in 1..Len(calls) :
           /\ (calls[k].op \in SendOps /\ SendReturns(k)) =>
                /\ Concat(calls[k].chunks) = calls[k].encoded
                /\ Get(lastCall').written = Len(calls[k].encoded)
           /\ (calls[k].op \in SendOps /\ sendResumes(k, TRUE)
                 /\ Len(calls') = Len(calls) /\ calls'[k].started > calls[k].started) =>
                calls[k].started = Len(calls[k].chunks)
      /\ \A data \in SentTexts :
           callSendData(data) =>
             IF IsNone(characteristic)
               THEN /\ lastCall' = Threw("sendData", "Printer belum terhubung", 0)
                    /\ calls' = calls
               ELSE \/ /\ encode(data) = << >>
                       /\ lastCall' = Returned("sendData", 0) /\ calls' = calls
                    \/ /\ encode(data) /= << >>
                       /\ calls'[Len(calls')].encoded = encode(data)
                       /\ calls'[Len(calls')].chunks = << >> ]_vars

\* A sendData call has returned after three chunks, the last one shorter.
C17_Witness ==
  /\ lastCall /= None
  /\ Get(lastCall).op = "sendData"
  /\ Get(lastCall).result = "returned"
  /\ Get(lastCall).written > 2 * chunkSize
  /\ Get(lastCall).written % chunkSize /= 0

\* The line ends with the text.
EndsWith(line, text) ==
  /\ Len(text) <= Len(line)
  /\ SubSeq(line, Len(line) - Len(text) + 1, Len(line)) = text

\* The line starts with the text.
StartsWith(line, text) ==
  /\ Len(text) <= Len(line)
  /\ SubSeq(line, 1, Len(text)) = text

\* C18: the line justifyLine(left, right, 32) returns has exactly 32
\* characters and ends with the whole right text, and it starts with the whole
\* left text when left and right together have fewer than 32 characters.
C18_JustifiedLine ==
  justified /= None =>
    LET call == Get(justified)
    IN  /\ Len(call.line) = LineWidth
        /\ EndsWith(call.line, call.right)
        /\ Len(call.left) + Len(call.right) < LineWidth => StartsWith(call.line, call.left)

====
